---- MODULE Spec2Model ----
(***************************************************************************)
(* Model of the Kroki diagram plugin core: the bounded, time-aware         *)
(* DiagramCache (src/src/diagram-cache.ts), the DiagramDetector that       *)
(* resolves language tags (src/src/diagram-detector.ts), the KrokiClient   *)
(* request pipeline with its retry loop (src/src/kroki-client.ts) and the  *)
(* DiagramRenderer orchestration of them (src/src/diagram-renderer.ts).    *)
(***************************************************************************)
EXTENDS Integers, Sequences, FiniteSets, TLC

(***************************************************************************)
(* Bounds of the model.                                                    *)
(***************************************************************************)
NumSources == 6        \* distinct diagram sources offered to the cache
MaxTime == 2           \* the clock (Date.now()) runs over 0..MaxTime
MaxCacheSizeCfg == 5   \* largest configured maximum cache size
MaxCacheAgeCfg == 1    \* largest configured maximum cache age
MaxCalls == 7          \* cache calls made by the callers in one run
MaxRetryCount == 3     \* largest retryCount option

Min(a, b) == IF a < b THEN a ELSE b

\* An optional JavaScript value: null or undefined is <<>>, a value v is <<v>>
Null == <<>>
Some(v) == <<v>>

Source(i) == "s" \o ToString(i)
Sources == {Source(i) : i \in 1..NumSources}
DiagramTypes == {"plantuml"}
OutputFormats == {"svg"}
NoFile == ""                     \* the optional file argument left out
RenderedOf(source) == "<svg>" \o source   \* the rendering of a source

\* the configurations a DiagramCache is constructed with
CacheSizes == {0, 1, MaxCacheSizeCfg}
CacheAges == 0..MaxCacheAgeCfg

VARIABLES
  cache,          \* DiagramCache.cache: the Map, as its entries in Map order
  maxCacheSize,   \* DiagramCache.maxCacheSize
  maxCacheAge,    \* DiagramCache.maxCacheAge
  now,            \* Date.now()
  lastOp,         \* the last direct call of a caller and what it observed
  calls,          \* number of cache calls made so far
  used,           \* number of sources the callers have stored so far
  rs,             \* the renderDiagram call of each caller: its position and locals
  detector,       \* DiagramDetector: diagramTypes and aliasMap
  settings,       \* KrokiEnhancedPlugin.settings: cacheSize, cacheAge and the
                  \* diagram types, each enabled or not
  processors,     \* the language tags a code-block processor is registered for
  dom,            \* the element of each code block: what the plugin put into it
  exporter        \* the exportFile call of the PandocExporter: position and locals

vars == <<cache, maxCacheSize, maxCacheAge, now, lastOp, calls, used, rs, detector,
          settings, processors, dom, exporter>>

(***************************************************************************)
(* DiagramCache                                                            *)
(***************************************************************************)
generateKey(source, diagramType, outputFormat, file) ==
  LET key == diagramType \o ":" \o outputFormat \o ":" \o source
  IN  IF file # NoFile THEN key \o ":" \o file ELSE key

\* Map primitives over the entries kept in insertion order
MapHas(m, key) == \E i \in 1..Len(m) : m[i].key = key
MapIndex(m, key) == CHOOSE i \in 1..Len(m) : m[i].key = key
MapGet(m, key) == m[MapIndex(m, key)]
\* an entry appended whether or not the key is in the Map
MapSet_append(m, key, entry) == Append(m, entry)

\* Map.prototype.set
MapSet(m, key, entry) ==
  IF MapHas(m, key) THEN [m EXCEPT ![MapIndex(m, key)] = entry]
  ELSE Append(m, entry)
MapDelete(m, key) == SelectSeq(m, LAMBDA e : e.key # key)
MapKeys(m) == {m[i].key : i \in 1..Len(m)}

\* Array.prototype.sort with (a, b) => a.timestamp - b.timestamp: stable
InsertByTimestamp(sorted, e) ==
  LET k == Cardinality({i \in 1..Len(sorted) : sorted[i].timestamp <= e.timestamp})
  IN  SubSeq(sorted, 1, k) \o <<e>> \o SubSeq(sorted, k + 1, Len(sorted))

RECURSIVE SortByTimestamp(_)
SortByTimestamp(entries) ==
  IF entries = <<>> THEN <<>>
  ELSE InsertByTimestamp(SortByTimestamp(SubSeq(entries, 1, Len(entries) - 1)),
                         entries[Len(entries)])

\* Math.floor(maxCacheSize * 0.2)
PruneCount(size) == size \div 5

\* the newest entries instead of the oldest
entriesToRemove_newest(m, size) ==
  LET entries == SortByTimestamp(m)
  IN  SubSeq(entries, Len(entries) - Min(PruneCount(size), Len(entries)) + 1,
             Len(entries))

\* entries.slice(0, Math.floor(this.maxCacheSize * 0.2))
entriesToRemove(m, size) ==
  LET entries == SortByTimestamp(m)
  IN  SubSeq(entries, 1, Min(PruneCount(size), Len(entries)))

pruneCache(m, size) ==
  LET gone == entriesToRemove(m, size)
  IN  SelectSeq(m, LAMBDA e : \A i \in 1..Len(gone) : gone[i].key # e.key)

\* DiagramCache.set: the Map after the call
CacheSet(m, size, t, source, renderedContent, diagramType, outputFormat, file) ==
  LET key == generateKey(source, diagramType, outputFormat, file)
      entry == [key |-> key, source |-> source, renderedContent |-> renderedContent,
                timestamp |-> t, diagramType |-> diagramType,
                outputFormat |-> outputFormat]
      added == MapSet(m, key, entry)
  IN  IF Len(added) > size THEN pruneCache(added, size) ELSE added

\* a hit that refreshes the timestamp of the entry, as a cache that evicts
\* the least recently used entry would
CacheGet_touch(m, age, t, source, diagramType, outputFormat, file) ==
  LET key == generateKey(source, diagramType, outputFormat, file)
  IN  IF MapHas(m, key)
      THEN IF t - MapGet(m, key).timestamp <= age
           THEN [ret |-> Some(MapGet(m, key).renderedContent),
                 map |-> MapSet(m, key, [MapGet(m, key) EXCEPT !.timestamp = t])]
           ELSE [ret |-> Null, map |-> MapDelete(m, key)]
      ELSE [ret |-> Null, map |-> m]

\* the age bound taken strictly (<) and the expired entry kept
CacheGet_strict(m, age, t, source, diagramType, outputFormat, file) ==
  LET key == generateKey(source, diagramType, outputFormat, file)
  IN  IF MapHas(m, key) /\ t - MapGet(m, key).timestamp < age
      THEN [ret |-> Some(MapGet(m, key).renderedContent), map |-> m]
      ELSE [ret |-> Null, map |-> m]

\* DiagramCache.get: the value returned and the Map after the call
CacheGet(m, age, t, source, diagramType, outputFormat, file) ==
  LET key == generateKey(source, diagramType, outputFormat, file)
  IN  IF MapHas(m, key)
      THEN IF t - MapGet(m, key).timestamp <= age
           THEN [ret |-> Some(MapGet(m, key).renderedContent), map |-> m]
           ELSE [ret |-> Null, map |-> MapDelete(m, key)]
      ELSE [ret |-> Null, map |-> m]

\* the entries whose age has reached the maximum removed as well
pruneExpiredEntries_atAge(m, age, t) ==
  SelectSeq(m, LAMBDA entry : ~(t - entry.timestamp >= age))

\* DiagramCache.pruneExpiredEntries: the Map after the call
pruneExpiredEntries(m, age, t) ==
  SelectSeq(m, LAMBDA entry : ~(t - entry.timestamp > age))

(***************************************************************************)
(* DiagramDetector. A language tag is the sequence of its characters.      *)
(***************************************************************************)
\* the string of a sequence of characters
RECURSIVE Str(_)
Str(chars) == IF chars = <<>> THEN "" ELSE Head(chars) \o Str(Tail(chars))

\* \w and \s of the regular expression
WordChars ==
  {"a", "b", "c", "d", "e", "f", "g", "h", "i", "j", "k", "l", "m",
   "n", "o", "p", "q", "r", "s", "t", "u", "v", "w", "x", "y", "z",
   "A", "B", "C", "D", "E", "F", "G", "H", "I", "J", "K", "L", "M",
   "N", "O", "P", "Q", "R", "S", "T", "U", "V", "W", "X", "Y", "Z",
   "0", "1", "2", "3", "4", "5", "6", "7", "8", "9", "_"}
SpaceChars == {" "}

includes(chars, c) == \E i \in 1..Len(chars) : chars[i] = c
IndexOf(chars, c) == CHOOSE i \in 1..Len(chars) :
                       chars[i] = c /\ \A j \in 1..(i - 1) : chars[j] # c

\* the length of the longest run of characters of a class from a position on
RunLength(chars, from, class) ==
  CHOOSE n \in 0..(Len(chars) - from + 1) :
    /\ \A i \in from..(from + n - 1) : chars[i] \in class
    /\ from + n <= Len(chars) => chars[from + n] \notin class

\* language.match(/^(\w+)\s*\{(.+)\}$/): the two groups, or null. The
\* greedy \w+ and \s* take the longest runs (a shorter run would leave a
\* character of the class where \s or { must follow).
matchOptions(language) ==
  LET w == RunLength(language, 1, WordChars)
      sp == RunLength(language, w + 1, SpaceChars)
      open == w + sp + 1
      n == Len(language)
  IN  IF /\ w >= 1
         /\ open <= n /\ language[open] = "{"
         /\ n >= open + 2 /\ language[n] = "}"
      THEN Some(<<SubSeq(language, 1, w), SubSeq(language, open + 1, n - 1)>>)
      ELSE Null

\* String.prototype.split on a one-character separator
RECURSIVE split(_, _)
split(chars, sep) ==
  IF ~includes(chars, sep) THEN <<chars>>
  ELSE LET i == IndexOf(chars, sep)
       IN  <<SubSeq(chars, 1, i - 1)>> \o split(SubSeq(chars, i + 1, Len(chars)), sep)

\* String.prototype.trim
RECURSIVE trim(_)
trim(chars) ==
  IF chars = <<>> THEN <<>>
  ELSE IF chars[1] \in SpaceChars THEN trim(Tail(chars))
  ELSE IF chars[Len(chars)] \in SpaceChars THEN trim(SubSeq(chars, 1, Len(chars) - 1))
  ELSE chars

\* optionPairs.forEach(pair => ...): options is the Record, as its entries
RECURSIVE addOptions(_, _)
addOptions(options, optionPairs) ==
  IF optionPairs = <<>> THEN options
  ELSE LET parts == split(Head(optionPairs), ":")
           key == trim(parts[1])
           value == IF Len(parts) >= 2 THEN trim(parts[2]) ELSE <<>>
       IN  addOptions(IF key # <<>> /\ value # <<>>
                      THEN MapSet(options, key, [key |-> key, value |-> value])
                      ELSE options,
                      Tail(optionPairs))

parseLanguageOptions(language) ==
  IF includes(language, "{") /\ matchOptions(language) # Null
  THEN [language |-> matchOptions(language)[1][1],
        options |-> addOptions(<<>>, split(matchOptions(language)[1][2], ","))]
  ELSE [language |-> language, options |-> <<>>]

\* a language that is not in the map taken as its own diagram type
detectDiagramType_passThrough(aliasMap, language) ==
  IF MapHas(aliasMap, language) /\ MapGet(aliasMap, language).value # <<>>
  THEN Some(MapGet(aliasMap, language).value)
  ELSE Some(language)

\* this.aliasMap.get(language) || null
detectDiagramType(aliasMap, language) ==
  IF MapHas(aliasMap, language) /\ MapGet(aliasMap, language).value # <<>>
  THEN Some(MapGet(aliasMap, language).value)
  ELSE Null

detectDiagram(aliasMap, source, language) ==
  LET parsed == parseLanguageOptions(language)
      diagramType == detectDiagramType(aliasMap, parsed.language)
  IN  IF diagramType = Null THEN Null
      ELSE Some([diagramType |-> diagramType[1], source |-> source,
                 language |-> parsed.language, options |-> parsed.options])

RECURSIVE addAliases(_, _, _)

\* an alias that is in the map already kept for the type that claimed it first
addAliases_firstWins(aliasMap, aliases, diagramType) ==
  IF aliases = <<>> THEN aliasMap
  ELSE addAliases(IF MapHas(aliasMap, Head(aliases)) THEN aliasMap
                  ELSE MapSet(aliasMap, Head(aliases),
                              [key |-> Head(aliases), value |-> diagramType]),
                  Tail(aliases), diagramType)

\* aliases.forEach(alias => this.aliasMap.set(alias, diagramType))
addAliases(aliasMap, aliases, diagramType) ==
  IF aliases = <<>> THEN aliasMap
  ELSE addAliases(MapSet(aliasMap, Head(aliases),
                         [key |-> Head(aliases), value |-> diagramType]),
                  Tail(aliases), diagramType)

\* Object.entries(this.diagramTypes).forEach(...): the table as its entries
RECURSIVE addTypes(_, _)
addTypes(aliasMap, diagramTypes) ==
  IF diagramTypes = <<>> THEN aliasMap
  ELSE LET diagramType == Head(diagramTypes).name
           named == MapSet(aliasMap, diagramType,
                           [key |-> diagramType, value |-> diagramType])
       IN  addTypes(addAliases(named, Head(diagramTypes).aliases, diagramType),
                    Tail(diagramTypes))

\* the map rebuilt on top of its old entries
buildAliasMap_noClear(aliasMap, diagramTypes) == addTypes(aliasMap, diagramTypes)

\* this.aliasMap.clear(), then the entries of the table
buildAliasMap(aliasMap, diagramTypes) == addTypes(<<>>, diagramTypes)

getSupportedLanguages(aliasMap) == [i \in 1..Len(aliasMap) |-> aliasMap[i].key]

\* new DiagramDetector(diagramTypes)
DiagramDetector(diagramTypes) ==
  [diagramTypes |-> diagramTypes, aliasMap |-> buildAliasMap(<<>>, diagramTypes)]

updateDiagramTypes(d, diagramTypes) ==
  [diagramTypes |-> diagramTypes,
   aliasMap |-> buildAliasMap(d.aliasMap, diagramTypes)]

\* the names the tables are made of
plantuml == <<"p", "l", "a", "n", "t", "u", "m", "l">>
uml == <<"u", "m", "l">>
d2 == <<"d", "2">>
erd == <<"e", "r", "d">>
js == <<"j", "s">>
vegalite == <<"v", "e", "g", "a", "l", "i", "t", "e">>
vega_lite == <<"v", "e", "g", "a", "-", "l", "i", "t", "e">>

\* diagramTypesMap as initializeRenderer builds it from the enabled types
DefaultTypes ==
  <<[name |-> plantuml, aliases |-> <<uml>>], [name |-> d2, aliases |-> <<>>]>>
\* the fourth and fifth table have an alias that two types claim, in either
\* order; the sixth is the vegalite type of the default settings, whose alias
\* has a hyphen; in the last two a type lists the name of another as an alias
Tables ==
  { DefaultTypes,
    <<[name |-> plantuml, aliases |-> <<>>]>>,
    <<[name |-> erd, aliases |-> <<>>], [name |-> d2, aliases |-> <<uml>>]>>,
    <<[name |-> plantuml, aliases |-> <<uml>>], [name |-> d2, aliases |-> <<uml>>]>>,
    <<[name |-> d2, aliases |-> <<uml>>], [name |-> plantuml, aliases |-> <<uml>>]>>,
    <<[name |-> vegalite, aliases |-> <<vega_lite>>]>>,
    <<[name |-> d2, aliases |-> <<>>], [name |-> plantuml, aliases |-> <<d2>>]>>,
    <<[name |-> plantuml, aliases |-> <<d2>>], [name |-> d2, aliases |-> <<>>]>> }

(***************************************************************************)
(* KrokiClient                                                             *)
(***************************************************************************)
\* a || b on optional numbers and on strings
NumOr(opt, d) == IF opt = Null THEN d ELSE IF opt[1] = 0 THEN d ELSE opt[1]
StrOr(str, d) == IF str = "" THEN d ELSE str

RECURSIVE Pow2(_)
Pow2(n) == IF n <= 0 THEN 1 ELSE 2 * Pow2(n - 1)

\* btoa over the bytes of a buffer
B64Chars ==
  <<"A","B","C","D","E","F","G","H","I","J","K","L","M","N","O","P",
    "Q","R","S","T","U","V","W","X","Y","Z","a","b","c","d","e","f",
    "g","h","i","j","k","l","m","n","o","p","q","r","s","t","u","v",
    "w","x","y","z","0","1","2","3","4","5","6","7","8","9","+","/">>
B64(n) == B64Chars[n + 1]

RECURSIVE btoa(_)
btoa(bytes) ==
  IF Len(bytes) = 0 THEN ""
  ELSE IF Len(bytes) = 1
  THEN B64(bytes[1] \div 4) \o B64((bytes[1] % 4) * 16) \o "=="
  ELSE IF Len(bytes) = 2
  THEN B64(bytes[1] \div 4) \o B64((bytes[1] % 4) * 16 + bytes[2] \div 16)
       \o B64((bytes[2] % 16) * 4) \o "="
  ELSE B64(bytes[1] \div 4) \o B64((bytes[1] % 4) * 16 + bytes[2] \div 16)
       \o B64((bytes[2] % 16) * 4 + bytes[3] \div 64) \o B64(bytes[3] % 64)
       \o btoa(SubSeq(bytes, 4, Len(bytes)))

\* Buffer.from(bytes).toString('base64'), as the sequence of its characters
RECURSIVE toBase64(_)
toBase64(bytes) ==
  IF Len(bytes) = 0 THEN <<>>
  ELSE IF Len(bytes) = 1
  THEN <<B64(bytes[1] \div 4), B64((bytes[1] % 4) * 16), "=", "=">>
  ELSE IF Len(bytes) = 2
  THEN <<B64(bytes[1] \div 4), B64((bytes[1] % 4) * 16 + bytes[2] \div 16),
         B64((bytes[2] % 16) * 4), "=">>
  ELSE <<B64(bytes[1] \div 4), B64((bytes[1] % 4) * 16 + bytes[2] \div 16),
         B64((bytes[2] % 16) * 4 + bytes[3] \div 64), B64(bytes[3] % 64)>>
       \o toBase64(SubSeq(bytes, 4, Len(bytes)))

\* a replace without the g flag: the first occurrence only
replaceAll_first(chars, from, to) ==
  IF \E i \in 1..Len(chars) : chars[i] = from
  THEN LET first == CHOOSE i \in 1..Len(chars) :
                      /\ chars[i] = from
                      /\ \A j \in 1..(i - 1) : chars[j] # from
       IN  [chars EXCEPT ![first] = to]
  ELSE chars

\* str.replace(/c/g, to) for a single character c
replaceAll(chars, from, to) ==
  [i \in 1..Len(chars) |-> IF chars[i] = from THEN to ELSE chars[i]]

\* str.replace(/=+$/, '')
RECURSIVE stripTrailingPad(_)
stripTrailingPad(chars) ==
  IF chars # <<>> /\ chars[Len(chars)] = "="
  THEN stripTrailingPad(SubSeq(chars, 1, Len(chars) - 1))
  ELSE chars

\* encodeDiagramSource from the bytes pako.deflate returned on: base64, then
\* the three replacements that make the token URL safe
encodeDiagramSource(compressed) ==
  stripTrailingPad(replaceAll(replaceAll(toBase64(compressed), "+", "-"), "/", "_"))

arrayBufferToDataUrl(buffer, mimeType) ==
  "data:" \o mimeType \o ";base64," \o btoa(buffer)

\* KrokiResponse: a record that has the fields that are set
Has(rec, f) == f \in DOMAIN rec

\* the upper end of the success range off by one: status 300 a success
processResponse_upTo300(response) ==
  IF response.status >= 200 /\ response.status <= 300
  THEN [success |-> TRUE,
        data |-> IF response.arrayBuffer # Null
                 THEN arrayBufferToDataUrl(response.arrayBuffer[1],
                                           response.contentType)
                 ELSE response.text,
        statusCode |-> response.status]
  ELSE [success |-> FALSE,
        error |-> StrOr(response.text, "HTTP error " \o ToString(response.status)),
        statusCode |-> response.status]

processResponse(response) ==
  IF response.status >= 200 /\ response.status < 300
  THEN [success |-> TRUE,
        data |-> IF response.arrayBuffer # Null
                 THEN arrayBufferToDataUrl(response.arrayBuffer[1],
                                           response.contentType)
                 ELSE response.text,
        statusCode |-> response.status]
  ELSE [success |-> FALSE,
        error |-> StrOr(response.text, "HTTP error " \o ToString(response.status)),
        statusCode |-> response.status]

\* the message of the error passed on as it is, empty or not
CaughtFailure_raw(error) == [success |-> FALSE, error |-> error.message]

\* the catch blocks of sendGetRequest and sendPostRequest
CaughtFailure(error) ==
  [success |-> FALSE, error |-> StrOr(error.message, "Unknown error occurred")]

Error(message) == [name |-> "Error", message |-> message]

\* error.message.includes('fetch'), over the messages the transport raises
IncludesFetch(message) == message \in {"Failed to fetch", "fetch failed"}

\* the test of the catch block of sendRequestWithRetry
IsNetworkError(error) == error.name = "AbortError" \/ IncludesFetch(error.message)

\* every error status retried, the client errors included
IsServerError_any(status) == status >= 400

\* the test of the try block of sendRequestWithRetry
IsServerError(status) == status >= 500

\* what the transport (requestUrl) can answer
Statuses == {200, 302, 400, 404, 500, 503}
Bodies ==
  { [text |-> "", bytes |-> <<>>],
    [text |-> "<svg>A", bytes |-> <<60, 115, 118, 103, 62, 65>>] }
\* a text response (arrayBuffer not set) or a response with its bytes as well
Responses ==
  { [status |-> st, text |-> b.text, arrayBuffer |-> Null,
     contentType |-> "image/svg+xml"] : st \in Statuses, b \in Bodies } \cup
  { [status |-> 200, text |-> b.text, arrayBuffer |-> Some(b.bytes),
     contentType |-> "image/svg+xml"] : b \in Bodies }
TransportErrors ==
  { [name |-> "AbortError", message |-> "The operation was aborted"],
    [name |-> "TypeError", message |-> "Failed to fetch"],
    [name |-> "Error", message |-> "net::ERR_CONNECTION_REFUSED"],
    [name |-> "Error", message |-> ""] }

\* the options of a render
RetryCounts == {Null} \cup {Some(n) : n \in (-1)..MaxRetryCount}
RetryDelays == {Some(100)}
\* settings.requestTimeout, in ticks of the clock
Timeouts == {Some(1)}
RenderOptions ==
  [outputFormat : OutputFormats, useCache : BOOLEAN,
   retryCount : RetryCounts, retryDelay : RetryDelays, timeout : Timeouts]
\* the options of the renders that are followed through time: the default
\* retryCount and one that allows a retry
FewRetryOptions == {o \in RenderOptions : o.retryCount \in {Null, Some(2)}}

Methods == {"GET", "POST"}
NoOutcome == [kind |-> "none", status |-> 0, error |-> Error("")]

\* A caller that is not rendering. The record of a render holds
\*   pc: "idle", "request" (awaiting requestUrl), "delay" (awaiting the
\*       backoff timer) or "done";
\*   source, diagramType, options: the arguments of renderDiagram;
\*   cached: what the cache check returned; valid: the content of the valid
\*       entry for the key when the render started, if any;
\*   method, attempt, maxRetries, retryDelay, lastError: the strategy that
\*       runs and the locals of its sendRequestWithRetry;
\*   encoded: encodeDiagramSource returned;
\*   inFlightSince: the time of the requestUrl call that is not answered yet;
\*   per method, what has been observed of the strategy: started (calls of
\*       sendGetRequest / sendPostRequest), calls (requestUrl calls), delays
\*       (the backoff delays waited, in ms), only5xx (every attempt so far
\*       was answered with a 5xx status), lastOutcome (of the last attempt),
\*       result (the KrokiResponse returned);
\*   outcome, value: "returned" with the content, "thrown" with the message,
\*       or "null" (processCodeBlock returned null);
\*   language, context, callerOptions, detection: the tag, the document
\*       (the source path of the context) and the options processCodeBlock
\*       was called with, and what detectDiagram returned;
\*   lookup, requestOptions, written: the arguments of the cache.get call,
\*       the request options built and the arguments of the cache.set call.
Idle ==
  [pc |-> "idle", source |-> "", diagramType |-> "", options |-> Null,
   language |-> Null, context |-> "", callerOptions |-> Null, detection |-> Null,
   lookup |-> Null, requestOptions |-> Null, written |-> Null,
   cached |-> Null, valid |-> Null,
   method |-> "", attempt |-> 0, maxRetries |-> 0, retryDelay |-> 0,
   lastError |-> Null, encoded |-> FALSE, inFlightSince |-> Null,
   started |-> [m \in Methods |-> 0],
   calls |-> [m \in Methods |-> 0],
   delays |-> [m \in Methods |-> <<>>],
   only5xx |-> [m \in Methods |-> TRUE],
   lastOutcome |-> [m \in Methods |-> NoOutcome],
   result |-> [m \in Methods |-> Null],
   outcome |-> "none", value |-> ""]

\* one caller, whose renders follow one another
Procs == {1}

(***************************************************************************)
(* DiagramRenderer.renderDiagram, from the response on                     *)
(***************************************************************************)
\* every success taken as it is, its data empty or not
handleResponse_successOnly(w, response) ==
  IF response.success
  THEN [r |-> [w.r EXCEPT !.pc = "done", !.outcome = "returned",
                          !.value = response.data,
                          !.written = IF w.r.options[1].useCache
                                      THEN Some([source |-> w.r.source,
                                                 diagramType |-> w.r.diagramType,
                                                 outputFormat |-> w.r.options[1].outputFormat])
                                      ELSE Null],
        cache |-> IF w.r.options[1].useCache
                  THEN CacheSet(w.cache, maxCacheSize, now, w.r.source,
                                response.data, w.r.diagramType,
                                w.r.options[1].outputFormat, NoFile)
                  ELSE w.cache]
  ELSE [r |-> [w.r EXCEPT !.pc = "done", !.outcome = "thrown",
                          !.value = "Failed to render diagram: " \o
                                    StrOr(IF Has(response, "error")
                                          THEN response.error ELSE "",
                                          "Unknown error")],
        cache |-> w.cache]

handleResponse(w, response) ==
  IF response.success /\ Has(response, "data") /\ response.data # ""
  THEN [r |-> [w.r EXCEPT !.pc = "done", !.outcome = "returned",
                          !.value = response.data,
                          !.written = IF w.r.options[1].useCache
                                      THEN Some([source |-> w.r.source,
                                                 diagramType |-> w.r.diagramType,
                                                 outputFormat |-> w.r.options[1].outputFormat])
                                      ELSE Null],
        cache |-> IF w.r.options[1].useCache
                  THEN CacheSet(w.cache, maxCacheSize, now, w.r.source,
                                response.data, w.r.diagramType,
                                w.r.options[1].outputFormat, NoFile)
                  ELSE w.cache]
  ELSE [r |-> [w.r EXCEPT !.pc = "done", !.outcome = "thrown",
                          !.value = "Failed to render diagram: " \o
                                    StrOr(IF Has(response, "error")
                                          THEN response.error ELSE "",
                                          "Unknown error")],
        cache |-> w.cache]

\* the fallback taken after every failed GET, a 400 included
FallsBackToPost_any(response) == ~response.success

\* if (!response.success && response.statusCode !== 400)
FallsBackToPost(response) ==
  /\ ~response.success
  /\ ~(Has(response, "statusCode") /\ response.statusCode = 400)

RECURSIVE loopHead(_)

\* the POST strategy allowed three attempts when the retry count is left out
sendPostRequest_threeByDefault(w) ==
  loopHead([w EXCEPT !.r.method = "POST", !.r.attempt = 0,
                     !.r.started["POST"] = @ + 1,
                     !.r.maxRetries = NumOr(w.r.options[1].retryCount, 3),
                     !.r.retryDelay = NumOr(w.r.options[1].retryDelay, 1000),
                     !.r.lastError = Null])

\* sendPostRequest up to the call of sendRequestWithRetry
sendPostRequest(w) ==
  loopHead([w EXCEPT !.r.method = "POST", !.r.attempt = 0,
                     !.r.started["POST"] = @ + 1,
                     !.r.maxRetries = NumOr(w.r.options[1].retryCount, 1),
                     !.r.retryDelay = NumOr(w.r.options[1].retryDelay, 1000),
                     !.r.lastError = Null])

\* a strategy returns its KrokiResponse to renderDiagram
strategyEnd(w, response) ==
  LET done == [w EXCEPT !.r.result[w.r.method] = Some(response)]
  IN  IF w.r.method = "GET" /\ FallsBackToPost(response)
      THEN sendPostRequest(done)
      ELSE handleResponse(done, response)

\* the error after the loop always the generic one, lastError left aside
ThrownAfterLoop_generic(r) == Error("Unknown error during request")

\* the error sendRequestWithRetry throws after its loop
ThrownAfterLoop(r) ==
  IF r.lastError # Null THEN r.lastError[1]
  ELSE Error("Unknown error during request")

\* the loop test off by one: attempt <= maxRetries
loopHead_offByOne(w) ==
  IF w.r.attempt <= w.r.maxRetries
  THEN [w EXCEPT !.r.pc = "request", !.r.calls[w.r.method] = @ + 1,
                 !.r.inFlightSince = Some(now)]
  ELSE strategyEnd(w, CaughtFailure(ThrownAfterLoop(w.r)))

\* the head of the loop of sendRequestWithRetry: the next requestUrl call,
\* or the throw after the loop, caught by the strategy
loopHead(w) ==
  IF w.r.attempt < w.r.maxRetries
  THEN [w EXCEPT !.r.pc = "request", !.r.calls[w.r.method] = @ + 1,
                 !.r.inFlightSince = Some(now)]
  ELSE strategyEnd(w, CaughtFailure(ThrownAfterLoop(w.r)))

\* sendGetRequest up to the call of sendRequestWithRetry; encodes tells
\* whether encodeDiagramSource returns (or throws)
sendGetRequest(w, encodes) ==
  LET g == [w EXCEPT !.r.method = "GET", !.r.attempt = 0,
                     !.r.started["GET"] = @ + 1,
                     !.r.encoded = encodes,
                     !.r.maxRetries = NumOr(w.r.options[1].retryCount, 1),
                     !.r.retryDelay = NumOr(w.r.options[1].retryDelay, 1000),
                     !.r.lastError = Null]
  IN  IF encodes THEN loopHead(g)
      ELSE strategyEnd(g, CaughtFailure(Error("Failed to encode diagram source")))

\* a delay that grows by retryDelay with every attempt instead of doubling
backoff_linear(w, error) ==
  [w EXCEPT !.r.pc = "delay", !.r.lastError = Some(error),
            !.r.delays[w.r.method] = Append(@, w.r.retryDelay * (w.r.attempt + 1))]

\* await this.delay(retryDelay * Math.pow(2, attempt)); continue
backoff(w, error) ==
  [w EXCEPT !.r.pc = "delay", !.r.lastError = Some(error),
            !.r.delays[w.r.method] = Append(@, w.r.retryDelay * Pow2(w.r.attempt))]

\* the try block of sendRequestWithRetry after requestUrl has answered
onResponse(w, response) ==
  IF response.status >= 200 /\ response.status < 300
  THEN strategyEnd(w, processResponse(response))
  ELSE IF IsServerError(response.status)
  THEN backoff(w, Error("Server error: " \o ToString(response.status) \o " "
                        \o response.text))
  ELSE strategyEnd(w, processResponse(response))

\* the catch block of sendRequestWithRetry after requestUrl has rejected
onReject(w, error) ==
  IF IsNetworkError(error) THEN backoff(w, error)
  ELSE strategyEnd([w EXCEPT !.r.lastError = Some(error)], CaughtFailure(error))

\* the cache never consulted
checkCache_skip(m, useCache, source, diagramType, outputFormat) ==
  [ret |-> Null, map |-> m, read |-> Null]

\* the cache consulted whatever useCache is
checkCache_always(m, useCache, source, diagramType, outputFormat) ==
  LET got == CacheGet(m, maxCacheAge, now, source, diagramType, outputFormat, NoFile)
  IN  [ret |-> got.ret, map |-> got.map,
       read |-> Some([source |-> source, diagramType |-> diagramType,
                      outputFormat |-> outputFormat])]

\* the cache check of renderDiagram: what cache.get returned, the Map after
\* it and the arguments cache.get was called with
checkCache(m, useCache, source, diagramType, outputFormat) ==
  IF useCache
  THEN LET got == CacheGet(m, maxCacheAge, now, source, diagramType,
                           outputFormat, NoFile)
       IN  [ret |-> got.ret, map |-> got.map,
            read |-> Some([source |-> source, diagramType |-> diagramType,
                           outputFormat |-> outputFormat])]
  ELSE [ret |-> Null, map |-> m, read |-> Null]

\* the content of a valid entry, if there is one
ValidEntry(m, source, diagramType, outputFormat) ==
  LET key == generateKey(source, diagramType, outputFormat, NoFile)
  IN  IF MapHas(m, key) /\ now - MapGet(m, key).timestamp <= maxCacheAge
      THEN Some(MapGet(m, key).renderedContent) ELSE Null

\* the cache looked up under a key that has the document of the block in it
renderDiagram_perDocument(m, block, source, diagramType, options, encodes) ==
  LET got == IF options.useCache
             THEN CacheGet(m, maxCacheAge, now, source, diagramType,
                           options.outputFormat, block.context)
             ELSE [ret |-> Null, map |-> m]
      r0 == [block EXCEPT !.source = source, !.diagramType = diagramType,
                          !.options = Some(options), !.cached = got.ret,
                          !.lookup = IF options.useCache
                                     THEN Some([source |-> source,
                                                diagramType |-> diagramType,
                                                outputFormat |-> options.outputFormat])
                                     ELSE Null,
                          !.valid = ValidEntry(m, source, diagramType,
                                               options.outputFormat)]
      requestOptions == [diagramType |-> diagramType,
                         outputFormat |-> options.outputFormat,
                         source |-> source,
                         timeout |-> options.timeout,
                         retryCount |-> options.retryCount,
                         retryDelay |-> options.retryDelay]
  IN  IF got.ret # Null /\ got.ret # Some("")
      THEN [r |-> [r0 EXCEPT !.pc = "done", !.outcome = "returned",
                             !.value = got.ret[1]],
            cache |-> got.map]
      ELSE sendGetRequest([r |-> [r0 EXCEPT !.requestOptions = Some(requestOptions)],
                           cache |-> got.map], encodes)

\* renderDiagram up to its first await: the cache check and, on a miss, the
\* request options and the GET strategy up to its first requestUrl call;
\* block holds what processCodeBlock did before (Idle for a direct call)
renderDiagram(m, block, source, diagramType, options, encodes) ==
  LET got == checkCache(m, options.useCache, source, diagramType,
                        options.outputFormat)
      r0 == [block EXCEPT !.source = source, !.diagramType = diagramType,
                          !.options = Some(options), !.cached = got.ret,
                          !.lookup = got.read,
                          !.valid = ValidEntry(m, source, diagramType,
                                               options.outputFormat)]
      requestOptions == [diagramType |-> diagramType,
                         outputFormat |-> options.outputFormat,
                         source |-> source,
                         timeout |-> options.timeout,
                         retryCount |-> options.retryCount,
                         retryDelay |-> options.retryDelay]
  IN  IF got.ret # Null /\ got.ret # Some("")
      THEN [r |-> [r0 EXCEPT !.pc = "done", !.outcome = "returned",
                             !.value = got.ret[1]],
            cache |-> got.map]
      ELSE sendGetRequest([r |-> [r0 EXCEPT !.requestOptions = Some(requestOptions)],
                           cache |-> got.map], encodes)

\* the format of the tag's option block left aside
applyOptions_ignore(detection, options) == options

\* processCodeBlock: if (detection.options.format) options.outputFormat = ...
applyOptions(detection, options) ==
  IF MapHas(detection.options, <<"f", "o", "r", "m", "a", "t">>)
  THEN [options EXCEPT !.outputFormat =
          Str(MapGet(detection.options, <<"f", "o", "r", "m", "a", "t">>).value)]
  ELSE options

\* processCodeBlock up to its first await
processCodeBlock(m, aliasMap, source, tag, context, options, encodes) ==
  LET detection == detectDiagram(aliasMap, source, tag.chars)
      block == [Idle EXCEPT !.language = Some(tag), !.context = context,
                            !.callerOptions = Some(options),
                            !.detection = detection]
  IN  IF detection = Null
      THEN [r |-> [block EXCEPT !.pc = "done", !.outcome = "null"], cache |-> m]
      ELSE renderDiagram(m, block, detection[1].source,
                         Str(detection[1].diagramType),
                         applyOptions(detection[1], options), encodes)

(***************************************************************************)
(* KrokiEnhancedPlugin: the code-block processor and its element           *)
(***************************************************************************)
\* The element of a code block, as the plugin's renderDiagram and the image
\* events leave it:
\*   container: the kroki-diagram-container div is in the element;
\*   loading: the loading indicator is in the container;
\*   img: "none", "pending" (appended, neither loaded nor failed), "loaded"
\*       or "failed";
\*   errors: the error containers in the container; elErrors: those put
\*       into the element itself by the catch of registerProcessor;
\*   awaiting: renderDiagram awaits processCodeBlock;
\*   threw: renderDiagram rejected.
NoElement ==
  [container |-> FALSE, loading |-> FALSE, img |-> "none", errors |-> 0,
   elErrors |-> 0, awaiting |-> FALSE, threw |-> FALSE]

\* handleRenderError(el, ...): one more error container, in the container of
\* the diagram or in the element of the code block
handleRenderError(el, into) ==
  IF into = "container" THEN [el EXCEPT !.errors = @ + 1]
  ELSE [el EXCEPT !.elErrors = @ + 1]

\* renderDiagram up to the await of processCodeBlock, on the fresh element
\* the processor is called with
createContainer ==
  [NoElement EXCEPT !.container = TRUE, !.loading = TRUE, !.awaiting = TRUE]

\* renderDiagram without its try: the error of processCodeBlock gets out and
\* the catch of registerProcessor reports it on the element
plugin_renderDiagram_noCatch(el, r) ==
  IF r.outcome = "thrown"
  THEN [handleRenderError(el, "el") EXCEPT !.awaiting = FALSE, !.threw = TRUE]
  ELSE IF r.outcome = "returned" /\ r.value # ""
  THEN [el EXCEPT !.img = "pending", !.awaiting = FALSE]
  ELSE [el EXCEPT !.loading = FALSE, !.container = FALSE, !.awaiting = FALSE]

\* the plugin's renderDiagram from the await of processCodeBlock on; r is the
\* render that has ended
plugin_renderDiagram(el, r) ==
  IF r.outcome = "thrown"
  THEN [handleRenderError(el, "container") EXCEPT !.loading = FALSE,
                                                   !.awaiting = FALSE]
  ELSE IF r.outcome = "returned" /\ r.value # ""
  THEN [el EXCEPT !.img = "pending", !.awaiting = FALSE]
  ELSE [el EXCEPT !.loading = FALSE, !.container = FALSE, !.awaiting = FALSE]

\* img.onload and img.onerror
imgOnload(el) == [el EXCEPT !.loading = FALSE, !.img = "loaded"]
imgOnerror(el) ==
  [handleRenderError(el, "container") EXCEPT !.loading = FALSE, !.img = "failed"]

\* the documents code blocks are rendered in (ctx.sourcePath)
\* settings.diagramTypes of DEFAULT_SETTINGS, in the order of the object's keys:
\* every type is enabled
DEFAULT_SETTINGS ==
  [i \in 1..Len(DefaultTypes) |->
     [obsidianBlockName |-> DefaultTypes[i].name,
      aliases |-> DefaultTypes[i].aliases, enabled |-> TRUE]]

\* initializeRenderer: the block name and the aliases of each enabled type
diagramTypesMap(diagramTypes) ==
  LET enabled == SelectSeq(diagramTypes, LAMBDA t : t.enabled)
  IN [i \in 1..Len(enabled) |->
        [name |-> enabled[i].obsidianBlockName, aliases |-> enabled[i].aliases]]

\* registerDiagramProcessors: a disabled type registers nothing, a type with
\* aliases registers its aliases only, a type without registers its block name;
\* registerProcessor adds a processor for the language and nothing takes one
\* away while the plugin is loaded
registerDiagramProcessors(registered, diagramTypes) ==
  registered \cup
    UNION {IF ~diagramTypes[i].enabled THEN {}
           ELSE IF Len(diagramTypes[i].aliases) > 0
             THEN {diagramTypes[i].aliases[j] : j \in 1..Len(diagramTypes[i].aliases)}
             ELSE {diagramTypes[i].obsidianBlockName} : i \in 1..Len(diagramTypes)}

Documents == {"a.md", "b.md"}

(***************************************************************************)
(* PandocExporter.exportFile                                               *)
(***************************************************************************)
PandocPath == "pandoc"
TempDir == "/tmp/obsidian-kroki-export"

\* args.join(' ')
RECURSIVE join(_, _)
join(args, sep) ==
  IF args = <<>> THEN ""
  ELSE IF Len(args) = 1 THEN args[1]
  ELSE args[1] \o sep \o join(Tail(args), sep)

\* buildPandocArgs, for options without metadata, styles and custom arguments
buildPandocArgs(inputPath, outputPath, options) ==
  <<"\"" \o inputPath \o "\"", "-o \"" \o outputPath \o "\"",
    "-t " \o options.format>> \o
  (IF options.includeImages THEN <<"--embed-resources", "--standalone">>
   ELSE <<>>)

\* The exportFile call. pc: "idle", "probe" (awaiting the version check),
\* "read" (awaiting vault.read), "exec" (awaiting the conversion) or "done";
\* available: what isPandocAvailable returned; command: the command line
\* once it is built; effects: what the call did outside, in order
\* (exec with its command line, read, write); result: the ExportResult.
NoExport ==
  [pc |-> "idle", file |-> "", options |-> Null, available |-> Null,
   command |-> Null, effects |-> <<>>, result |-> Null]

Effect(kind, command) == [kind |-> kind, command |-> command]
ExportResult(success, outputPath, error, command) ==
  [success |-> success, outputPath |-> outputPath, error |-> error,
   command |-> command]

\* the catch of exportFile with the command left out of the result
exportFileCatch_noCommand(error) ==
  ExportResult(FALSE, Null, "Export failed: " \o error.message, Null)

\* the catch of exportFile: command is error.cmd
exportFileCatch(error) ==
  ExportResult(FALSE, Null, "Export failed: " \o error.message,
               IF Has(error, "cmd") THEN Some(error.cmd) ELSE Null)

\* exportFile up to the await of the version check
exportFile(file, options) ==
  [NoExport EXCEPT !.pc = "probe", !.file = file, !.options = Some(options),
                   !.effects = <<Effect("exec", PandocPath \o " --version")>>]

\* isPandocAvailable has returned: give up, or go on to vault.read
probeAnswered(x, available) ==
  IF available
  THEN [x EXCEPT !.pc = "read", !.available = Some(TRUE),
                 !.effects = Append(@, Effect("read", ""))]
  ELSE [x EXCEPT !.pc = "done", !.available = Some(FALSE),
                 !.result = Some(ExportResult(FALSE, Null,
                     "Pandoc not found at path: " \o PandocPath
                       \o ". Please check your settings.", Null))]

\* vault.read has answered: with the content (the input file is written, or
\* writeFileSync throws) or with a rejection; after the write the command is
\* built and executed
readAnswered(x, outcome) ==
  LET inputPath == TempDir \o "/" \o x.file \o "-input.md"
      outputPath == IF x.options[1].outputPath # Null /\ x.options[1].outputPath # Some("")
                    THEN x.options[1].outputPath[1]
                    ELSE TempDir \o "/" \o x.file \o "." \o x.options[1].format
      command == PandocPath \o " " \o
                 join(buildPandocArgs(inputPath, outputPath, x.options[1]), " ")
  IN  IF outcome = "readFails"
      THEN [x EXCEPT !.pc = "done",
                     !.result = Some(exportFileCatch([message |-> "File not found"]))]
      ELSE IF outcome = "writeFails"
      THEN [x EXCEPT !.pc = "done",
                     !.effects = Append(@, Effect("write", "")),
                     !.result = Some(exportFileCatch([message |-> "EACCES"]))]
      ELSE [x EXCEPT !.pc = "exec", !.command = Some(command),
                     !.effects = @ \o <<Effect("write", ""), Effect("exec", command)>>]

\* the conversion has ended: the output file is there, or it is not, or exec
\* rejected with its error, whose cmd is the command line it was given
execAnswered(x, outcome) ==
  LET outputPath == IF x.options[1].outputPath # Null /\ x.options[1].outputPath # Some("")
                    THEN x.options[1].outputPath[1]
                    ELSE TempDir \o "/" \o x.file \o "." \o x.options[1].format
  IN  IF outcome = "fails"
      THEN [x EXCEPT !.pc = "done",
                     !.result = Some(exportFileCatch(
                        [message |-> "Command failed: " \o x.command[1],
                         cmd |-> x.command[1]]))]
      ELSE IF outcome = "missing"
      THEN [x EXCEPT !.pc = "done",
                     !.result = Some(ExportResult(FALSE, Null,
                        "Export failed: Output file not created", x.command))]
      ELSE [x EXCEPT !.pc = "done",
                     !.result = Some(ExportResult(TRUE, Some(outputPath), "", x.command))]

(***************************************************************************)
(* The cache called directly                                               *)
(***************************************************************************)
\* what a caller observes of a cache call: the key, the value returned, the
\* size before the call, the age of the entry found (get) and the Map as it
\* was between the insertion and the eviction (set)
NoOp == [op |-> "none", key |-> "", ret |-> Null, sizeBefore |-> 0,
         entryAge |-> Null, added |-> <<>>]

AgeOf(m, key, t) ==
  IF MapHas(m, key) THEN Some(t - MapGet(m, key).timestamp) ELSE Null

Init ==
  /\ cache = <<>>
  /\ maxCacheSize \in CacheSizes
  /\ maxCacheAge \in CacheAges
  /\ now = 0
  /\ lastOp = NoOp
  /\ calls = 0
  /\ used = 0
  /\ rs = [p \in Procs |-> Idle]
  /\ detector = DiagramDetector(diagramTypesMap(DEFAULT_SETTINGS))
  /\ settings = [cacheSize |-> maxCacheSize, cacheAge |-> maxCacheAge,
                 diagramTypes |-> DEFAULT_SETTINGS]
  /\ processors = registerDiagramProcessors({}, DEFAULT_SETTINGS)
  /\ dom = [p \in Procs |-> NoElement]
  /\ exporter = NoExport

\* a caller stores a rendered diagram
Set(source, renderedContent, diagramType, outputFormat) ==
  LET key == generateKey(source, diagramType, outputFormat, NoFile)
      entry == [key |-> key, source |-> source, renderedContent |-> renderedContent,
                timestamp |-> now, diagramType |-> diagramType,
                outputFormat |-> outputFormat]
      added == MapSet(cache, key, entry)
  IN  /\ calls < MaxCalls
      /\ calls' = calls + 1
      /\ cache' = CacheSet(cache, maxCacheSize, now, source, renderedContent,
                           diagramType, outputFormat, NoFile)
      /\ lastOp' = [op |-> "set", key |-> key, ret |-> Null,
                    sizeBefore |-> Len(cache), entryAge |-> Null,
                    added |-> added]
      /\ used' = IF source = Source(used + 1) THEN used + 1 ELSE used
      /\ UNCHANGED <<maxCacheSize, maxCacheAge, now, rs, detector,
               settings, processors, dom, exporter>>

\* a caller looks a diagram up
Get(source, diagramType, outputFormat) ==
  LET r == CacheGet(cache, maxCacheAge, now, source, diagramType, outputFormat, NoFile)
      key == generateKey(source, diagramType, outputFormat, NoFile)
  IN  /\ calls < MaxCalls
      /\ calls' = calls + 1
      /\ cache' = r.map
      /\ lastOp' = [op |-> "get", key |-> key, ret |-> r.ret,
                    sizeBefore |-> Len(cache),
                    entryAge |-> AgeOf(cache, key, now), added |-> <<>>]
      /\ UNCHANGED <<maxCacheSize, maxCacheAge, now, used, rs, detector,
               settings, processors, dom, exporter>>

\* time passes
Tick ==
  /\ now < MaxTime
  /\ now' = now + 1
  /\ UNCHANGED <<cache, maxCacheSize, maxCacheAge, lastOp, calls, used, rs, detector,
               settings, processors, dom, exporter>>

\* Sources are interchangeable: the callers take a source they have not
\* stored before in the order of the numbering.
Known == {Source(i) : i \in 1..Min(used + 1, NumSources)}

CacheNext ==
  \/ \E s \in Known, d \in DiagramTypes, f \in OutputFormats :
       Set(s, RenderedOf(s), d, f)
  \/ \E s \in Known, d \in DiagramTypes, f \in OutputFormats : Get(s, d, f)
  \/ Tick

CacheSpec == Init /\ [][CacheNext]_vars

\* the renderer as the plugin constructs it
RenderInit ==
  /\ Init
  /\ maxCacheSize = MaxCacheSizeCfg
  /\ maxCacheAge = MaxCacheAgeCfg

(***************************************************************************)
(* processResponse called on every response the transport can deliver      *)
(***************************************************************************)
HttpStatuses == 100..599
ContentTypes == {"image/svg+xml", "image/png"}
AllResponses ==
  UNION { { [status |-> st, text |-> b.text, arrayBuffer |-> ab,
             contentType |-> ct] :
              st \in HttpStatuses, ab \in {Null, Some(b.bytes)},
              ct \in ContentTypes } : b \in Bodies }

\* one call of processResponse
ProcessResponse(response) ==
  /\ lastOp = NoOp
  /\ lastOp' = [op |-> "processResponse", response |-> response,
                ret |-> processResponse(response)]
  /\ UNCHANGED <<cache, maxCacheSize, maxCacheAge, now, calls, used, rs, detector,
               settings, processors, dom, exporter>>

NormalizeNext == \E response \in AllResponses : ProcessResponse(response)

NormalizeSpec == RenderInit /\ [][NormalizeNext]_vars

(***************************************************************************)
(* The detector called directly                                            *)
(***************************************************************************)
\* The option blocks written after a tag, each with what it is: absent, well
\* formed or malformed, and the format it asks for.
OptionBlocks ==
  { [chars |-> <<>>,
     kind |-> "none", format |-> Null],
    [chars |-> <<"{", "f", "o", "r", "m", "a", "t", ":", "p", "n", "g", "}">>,
     kind |-> "wellformed", format |-> Some("png")],
    [chars |-> <<" ", "{", "f", "o", "r", "m", "a", "t", ":", "p", "n", "g", "}">>,
     kind |-> "wellformed", format |-> Some("png")],
    [chars |-> <<"{", " ", "f", "o", "r", "m", "a", "t", " ", ":", " ", "p", "n", "g", " ", "}">>,
     kind |-> "wellformed", format |-> Some("png")],
    [chars |-> <<"{", "t", "h", "e", "m", "e", ":", "d", "a", "r", "k", "}">>,
     kind |-> "wellformed", format |-> Null],
    [chars |-> <<"{", "t", "h", "e", "m", "e", ":", "d", "a", "r", "k", ",",
                 "f", "o", "r", "m", "a", "t", ":", "p", "n", "g", "}">>,
     kind |-> "wellformed", format |-> Some("png")],
    [chars |-> <<"{", "}">>,
     kind |-> "malformed", format |-> Null],
    [chars |-> <<"{", "f", "o", "r", "m", "a", "t", ":", "p", "n", "g">>,
     kind |-> "malformed", format |-> Null],
    [chars |-> <<"{", "f", "o", "r", "m", "a", "t", "}">>,
     kind |-> "malformed", format |-> Null] }
TagBases == {plantuml, uml, d2, erd, js, vega_lite}
LanguageTags ==
  { [chars |-> base \o b.chars, base |-> base, kind |-> b.kind, format |-> b.format] :
      base \in TagBases, b \in OptionBlocks }

DetectDiagram(tag) ==
  /\ lastOp' = [op |-> "detectDiagram", tag |-> tag,
                ret |-> detectDiagram(detector.aliasMap, Source(1), tag.chars)]
  /\ UNCHANGED <<cache, maxCacheSize, maxCacheAge, now, calls, used, rs, detector,
               settings, processors, dom, exporter>>

\* DiagramRenderer.updateDiagramTypes
UpdateDiagramTypes(diagramTypes) ==
  /\ detector' = updateDiagramTypes(detector, diagramTypes)
  /\ lastOp' = [op |-> "updateDiagramTypes", diagramTypes |-> diagramTypes]
  /\ UNCHANGED <<cache, maxCacheSize, maxCacheAge, now, calls, used, rs,
               settings, processors, dom, exporter>>

DetectNext ==
  \/ \E tag \in LanguageTags : DetectDiagram(tag)
  \/ \E diagramTypes \in Tables : UpdateDiagramTypes(diagramTypes)

DetectSpec == RenderInit /\ [][DetectNext]_vars

(***************************************************************************)
(* The steps of a render: one action from each await to the next           *)
(***************************************************************************)
RenderSources == {Source(1)}

\* renderDiagram is called: the cache check and, on a miss, the GET strategy
\* up to its first requestUrl call
RenderDiagram(p, source, diagramType, options, encodes) ==
  /\ rs[p].pc \in {"idle", "done"}
  /\ LET w == renderDiagram(cache, Idle, source, diagramType, options, encodes)
     IN  /\ rs' = [rs EXCEPT ![p] = w.r]
         /\ cache' = w.cache
  /\ UNCHANGED <<maxCacheSize, maxCacheAge, now, lastOp, calls, used, detector,
               settings, processors, dom, exporter>>

\* processCodeBlock is called on a code block
ProcessCodeBlock(p, source, tag, context, options, encodes) ==
  /\ rs[p].pc \in {"idle", "done"}
  /\ LET w == processCodeBlock(cache, detector.aliasMap, source, tag, context,
                               options, encodes)
     IN  /\ rs' = [rs EXCEPT ![p] = w.r]
         /\ cache' = w.cache
  /\ UNCHANGED <<maxCacheSize, maxCacheAge, now, lastOp, calls, used, detector,
               settings, processors, dom, exporter>>

\* requestUrl answers with a response
Respond(p, response) ==
  /\ rs[p].pc = "request"
  /\ LET m == rs[p].method
         seen == [rs[p] EXCEPT
                    !.inFlightSince = Null,
                    !.lastOutcome[m] = [kind |-> "response", status |-> response.status,
                                        error |-> Error("")],
                    !.only5xx[m] = @ /\ response.status >= 500 /\ response.status < 600]
         w == onResponse([r |-> seen, cache |-> cache], response)
     IN  /\ rs' = [rs EXCEPT ![p] = w.r]
         /\ cache' = w.cache
  /\ UNCHANGED <<maxCacheSize, maxCacheAge, now, lastOp, calls, used, detector,
               settings, processors, dom, exporter>>

\* requestUrl rejects with an error
Reject(p, error) ==
  /\ rs[p].pc = "request"
  /\ LET m == rs[p].method
         seen == [rs[p] EXCEPT
                    !.inFlightSince = Null,
                    !.lastOutcome[m] = [kind |-> "reject", status |-> 0, error |-> error],
                    !.only5xx[m] = FALSE]
         w == onReject([r |-> seen, cache |-> cache], error)
     IN  /\ rs' = [rs EXCEPT ![p] = w.r]
         /\ cache' = w.cache
  /\ UNCHANGED <<maxCacheSize, maxCacheAge, now, lastOp, calls, used, detector,
               settings, processors, dom, exporter>>

\* the backoff delay elapses: attempt++ and the loop test
DelayElapsed(p) ==
  /\ rs[p].pc = "delay"
  /\ LET w == loopHead([r |-> [rs[p] EXCEPT !.attempt = @ + 1], cache |-> cache])
     IN  /\ rs' = [rs EXCEPT ![p] = w.r]
         /\ cache' = w.cache
  /\ UNCHANGED <<maxCacheSize, maxCacheAge, now, lastOp, calls, used, detector,
               settings, processors, dom, exporter>>

\* renders, their cache and the clock
Next ==
  \/ \E p \in Procs, s \in RenderSources, d \in DiagramTypes,
        o \in FewRetryOptions : RenderDiagram(p, s, d, o, TRUE)
  \/ \E p \in Procs, s \in RenderSources, d \in DiagramTypes,
        o \in FewRetryOptions : RenderDiagram(p, s, d, o, FALSE)
  \/ \E p \in Procs, resp \in Responses : Respond(p, resp)
  \/ \E p \in Procs, err \in TransportErrors : Reject(p, err)
  \/ \E p \in Procs : DelayElapsed(p)
  \/ Tick

Spec == RenderInit /\ [][Next]_vars

\* the request pipeline under every retry option, the clock standing still
PipelineNext ==
  \/ \E p \in Procs, s \in RenderSources, d \in DiagramTypes,
        o \in RenderOptions : RenderDiagram(p, s, d, o, TRUE)
  \/ \E p \in Procs, s \in RenderSources, d \in DiagramTypes,
        o \in RenderOptions : RenderDiagram(p, s, d, o, FALSE)
  \/ \E p \in Procs, resp \in Responses : Respond(p, resp)
  \/ \E p \in Procs, err \in TransportErrors : Reject(p, err)
  \/ \E p \in Procs : DelayElapsed(p)

PipelineSpec == RenderInit /\ [][PipelineNext]_vars

\* code blocks of every tag, rendered as the plugin asks for them: svg, the
\* retry count left to its default, the transport answering with a diagram
\* or with 404
BlockOptions ==
  {o \in RenderOptions : o.outputFormat = "svg" /\ o.retryCount = Null}
BlockResponses ==
  {resp \in Responses : resp.status \in {200, 404} /\ resp.arrayBuffer = Null}
\* the tags of the code blocks: a registered alias, a registered name and a
\* language that is not a diagram, alone and with an option block
BlockTags ==
  {tag \in LanguageTags :
     /\ tag.base \in {uml, d2, js}
     /\ SubSeq(tag.chars, Len(tag.base) + 1, Len(tag.chars)) \in
          { <<>>,
            <<"{", "f", "o", "r", "m", "a", "t", ":", "p", "n", "g", "}">>,
            <<"{", "t", "h", "e", "m", "e", ":", "d", "a", "r", "k", "}">>,
            <<"{", "}">> }}

BlockNext ==
  \/ \E p \in Procs, s \in RenderSources, tag \in BlockTags,
        o \in BlockOptions : ProcessCodeBlock(p, s, tag, "a.md", o, TRUE)
  \/ \E p \in Procs, resp \in BlockResponses : Respond(p, resp)

BlockSpec == RenderInit /\ [][BlockNext]_vars

(***************************************************************************)
(* The cache pruned of its expired entries                                 *)
(***************************************************************************)
PruneExpiredEntries ==
  /\ calls < MaxCalls
  /\ calls' = calls + 1
  /\ cache' = pruneExpiredEntries(cache, maxCacheAge, now)
  /\ lastOp' = [op |-> "pruneExpiredEntries", before |-> cache, at |-> now]
  /\ UNCHANGED <<maxCacheSize, maxCacheAge, now, used, rs, detector,
                 settings, processors, dom, exporter>>

\* the sources stored in the cache that is pruned
PruneSources == {Source(1), Source(2), Source(3)}

PruneNext ==
  \/ \E s \in Known \cap PruneSources, d \in DiagramTypes, f \in OutputFormats :
       Set(s, RenderedOf(s), d, f)
  \/ \E s \in Known \cap PruneSources, d \in DiagramTypes, f \in OutputFormats :
       Get(s, d, f)
  \/ Tick
  \/ PruneExpiredEntries

PruneSpec == Init /\ [][PruneNext]_vars

(***************************************************************************)
(* The settings saved while the renderer exists                            *)
(***************************************************************************)
\* the settings tab sets cacheSize or cacheAge (the other is passed as it is)
\* and calls saveSettings, which calls initializeRenderer: the renderer
\* exists, so it is given the table of the enabled types and nothing else
SaveSettings(cacheSize, cacheAge) ==
  /\ calls < MaxCalls
  /\ calls' = calls + 1
  /\ settings' = [settings EXCEPT !.cacheSize = cacheSize, !.cacheAge = cacheAge]
  /\ detector' = updateDiagramTypes(detector, diagramTypesMap(settings.diagramTypes))
  /\ processors' = registerDiagramProcessors(processors, settings.diagramTypes)
  /\ lastOp' = [op |-> "saveSettings", cacheSize |-> cacheSize,
                cacheAge |-> cacheAge]
  /\ UNCHANGED <<cache, maxCacheSize, maxCacheAge, now, used, rs, dom, exporter>>

SettingsSources == {Source(1), Source(2)}

SettingsNext ==
  \/ \E cacheSize \in CacheSizes : SaveSettings(cacheSize, settings.cacheAge)
  \/ \E cacheAge \in CacheAges : SaveSettings(settings.cacheSize, cacheAge)
  \/ \E s \in Known \cap SettingsSources, d \in DiagramTypes, f \in OutputFormats :
       Set(s, RenderedOf(s), d, f)
  \/ \E s \in Known \cap SettingsSources, d \in DiagramTypes, f \in OutputFormats :
       Get(s, d, f)
  \/ Tick

SettingsSpec == Init /\ [][SettingsNext]_vars

(***************************************************************************)
(* encodeDiagramSource called on what pako.deflate can return              *)
(***************************************************************************)
MaxCompressedLen == 4   \* longest byte sequence pako.deflate returns
\* bytes whose base64 digits cover "+", "/" and the letters around them
CompressedBytes == {0, 62, 63, 120, 251, 255}
RECURSIVE ByteSeqs(_)
ByteSeqs(n) ==
  IF n = 0 THEN {<<>>}
  ELSE ByteSeqs(n - 1) \cup
       {Append(bytes, b) : bytes \in {q \in ByteSeqs(n - 1) : Len(q) = n - 1},
                           b \in CompressedBytes}

\* one call of encodeDiagramSource, pako.deflate returning compressed
EncodeDiagramSource(compressed) ==
  /\ lastOp = NoOp
  /\ lastOp' = [op |-> "encodeDiagramSource", compressed |-> compressed,
                base64 |-> toBase64(compressed),
                ret |-> encodeDiagramSource(compressed)]
  /\ UNCHANGED <<cache, maxCacheSize, maxCacheAge, now, calls, used, rs, detector,
                 settings, processors, dom, exporter>>

EncodeNext ==
  \E compressed \in ByteSeqs(MaxCompressedLen) : EncodeDiagramSource(compressed)

EncodeSpec == RenderInit /\ [][EncodeNext]_vars

(***************************************************************************)
(* The code blocks of two documents rendered by the plugin                 *)
(***************************************************************************)
\* the code blocks that are rendered, each by its own processor call
Renders == {1, 2}

PluginInit ==
  /\ cache = <<>>
  /\ maxCacheSize = MaxCacheSizeCfg
  /\ maxCacheAge = MaxCacheAgeCfg
  /\ now = 0
  /\ lastOp = NoOp
  /\ calls = 0
  /\ used = 0
  /\ rs = [p \in Renders |-> Idle]
  /\ detector = DiagramDetector(diagramTypesMap(DEFAULT_SETTINGS))
  /\ settings = [cacheSize |-> maxCacheSize, cacheAge |-> maxCacheAge,
                 diagramTypes |-> DEFAULT_SETTINGS]
  /\ processors = registerDiagramProcessors({}, DEFAULT_SETTINGS)
  /\ dom = [p \in Renders |-> NoElement]
  /\ exporter = NoExport

\* the renderOptions of the plugin's renderDiagram: svg, useCache true, the
\* retry count and delay of the settings
PluginOptions ==
  {o \in RenderOptions :
     o.outputFormat = "svg" /\ o.useCache /\ o.retryCount = Some(1)}
PluginTags == {tag \in LanguageTags : tag.chars \in {uml, js}}
\* the transport answers with a diagram or with 404, or fails for good
PluginResponses ==
  {resp \in Responses :
     resp.status \in {200, 404} /\ resp.arrayBuffer = Null /\ resp.text # ""}
PluginErrors == {err \in TransportErrors : ~IsNetworkError(err) /\ err.message # ""}

\* the processor of a code block calls the plugin's renderDiagram: the
\* container, the loading indicator and processCodeBlock up to its first await
PluginRenderDiagram(p, source, tag, ctx, options) ==
  /\ rs[p].pc \in {"idle", "done"}
  /\ ~dom[p].awaiting /\ dom[p].img # "pending"
  /\ LET w == processCodeBlock(cache, detector.aliasMap, source, tag, ctx,
                               options, TRUE)
     IN  /\ rs' = [rs EXCEPT ![p] = w.r]
         /\ cache' = w.cache
  /\ dom' = [dom EXCEPT ![p] = createContainer]
  /\ UNCHANGED <<maxCacheSize, maxCacheAge, now, lastOp, calls, used, detector,
                 settings, processors, exporter>>

\* processCodeBlock has ended and the plugin's renderDiagram goes on
PluginResume(p) ==
  /\ dom[p].awaiting /\ rs[p].pc = "done"
  /\ dom' = [dom EXCEPT ![p] = plugin_renderDiagram(dom[p], rs[p])]
  /\ UNCHANGED <<cache, maxCacheSize, maxCacheAge, now, lastOp, calls, used, rs,
                 detector, settings, processors, exporter>>

\* the image of the diagram loads
ImgLoad(p) ==
  /\ dom[p].img = "pending"
  /\ dom' = [dom EXCEPT ![p] = imgOnload(dom[p])]
  /\ UNCHANGED <<cache, maxCacheSize, maxCacheAge, now, lastOp, calls, used, rs,
                 detector, settings, processors, exporter>>

\* the image of the diagram fails to load
ImgError(p) ==
  /\ dom[p].img = "pending"
  /\ dom' = [dom EXCEPT ![p] = imgOnerror(dom[p])]
  /\ UNCHANGED <<cache, maxCacheSize, maxCacheAge, now, lastOp, calls, used, rs,
                 detector, settings, processors, exporter>>

PluginNext ==
  \/ \E p \in Renders, s \in RenderSources, tag \in PluginTags,
        ctx \in Documents, o \in PluginOptions :
       PluginRenderDiagram(p, s, tag, ctx, o)
  \/ \E p \in Renders, resp \in PluginResponses : Respond(p, resp)
  \/ \E p \in Renders, err \in PluginErrors : Reject(p, err)
  \/ \E p \in Renders : PluginResume(p)
  \/ \E p \in Renders : ImgLoad(p)
  \/ \E p \in Renders : ImgError(p)

PluginSpec == PluginInit /\ [][PluginNext]_vars

(***************************************************************************)
(* exportFile and what the probe, the vault and the conversion answer      *)
(***************************************************************************)
ExportFiles == {"note", "todo"}
ExportOptions ==
  [format : {"pdf", "html"}, outputPath : {Null, Some("/out/export")},
   includeImages : BOOLEAN]

ExportFile(file, options) ==
  /\ exporter.pc \in {"idle", "done"}
  /\ exporter' = exportFile(file, options)
  /\ UNCHANGED <<cache, maxCacheSize, maxCacheAge, now, lastOp, calls, used, rs,
                 detector, settings, processors, dom>>

ProbeAnswered(available) ==
  /\ exporter.pc = "probe"
  /\ exporter' = probeAnswered(exporter, available)
  /\ UNCHANGED <<cache, maxCacheSize, maxCacheAge, now, lastOp, calls, used, rs,
                 detector, settings, processors, dom>>

ReadAnswered(outcome) ==
  /\ exporter.pc = "read"
  /\ exporter' = readAnswered(exporter, outcome)
  /\ UNCHANGED <<cache, maxCacheSize, maxCacheAge, now, lastOp, calls, used, rs,
                 detector, settings, processors, dom>>

ExecAnswered(outcome) ==
  /\ exporter.pc = "exec"
  /\ exporter' = execAnswered(exporter, outcome)
  /\ UNCHANGED <<cache, maxCacheSize, maxCacheAge, now, lastOp, calls, used, rs,
                 detector, settings, processors, dom>>

ExportNext ==
  \/ \E file \in ExportFiles, options \in ExportOptions : ExportFile(file, options)
  \/ \E available \in BOOLEAN : ProbeAnswered(available)
  \/ \E outcome \in {"content", "readFails", "writeFails"} : ReadAnswered(outcome)
  \/ \E outcome \in {"created", "missing", "fails"} : ExecAnswered(outcome)

ExportSpec == RenderInit /\ [][ExportNext]_vars

(***************************************************************************)
(* Properties of the cache                                                 *)
(***************************************************************************)
Evicted == SelectSeq(lastOp.added, LAMBDA e : ~MapHas(cache, e.key))
PosIn(m, key) == MapIndex(m, key)

\* C1: immediately after every set returns, size() <= maxCacheSize, for
\* every configured maximum size (0 and sizes below 5 included).
C1_SizeWithinMax == lastOp.op = "set" => Len(cache) <= maxCacheSize

\* C2: a set evicts only when the size after the insertion exceeds the
\* maximum; the evicted entries are the oldest by timestamp, ties broken by
\* Map insertion order, and every newer entry survives; with maximum 5 and
\* six sets of distinct keys the first entry is gone and the other five stay.
C2_EvictOldest ==
  lastOp.op = "set" =>
    /\ Len(lastOp.added) <= maxCacheSize => Evicted = <<>>
    /\ \A i \in 1..Len(Evicted), j \in 1..Len(cache) :
         \/ Evicted[i].timestamp < cache[j].timestamp
         \/ /\ Evicted[i].timestamp = cache[j].timestamp
            /\ PosIn(lastOp.added, Evicted[i].key) < PosIn(lastOp.added, cache[j].key)
    /\ \A j \in 1..Len(cache) : cache[j] \in {lastOp.added[i] : i \in 1..Len(lastOp.added)}
    /\ (maxCacheSize = 5 /\ calls = 6 /\ used = 6) =>
         /\ ~MapHas(cache, generateKey(Source(1), "plantuml", "svg", NoFile))
         /\ \A n \in 2..6 :
              MapHas(cache, generateKey(Source(n), "plantuml", "svg", NoFile))

\* six sets of distinct keys into a cache of maximum size 5: one eviction
W_C2 ==
  /\ lastOp.op = "set" /\ maxCacheSize = 5 /\ calls = 6 /\ used = 6
  /\ Len(Evicted) = 1 /\ Len(cache) = 5

\* C3: a get that finds an entry older than the maximum age returns a miss
\* and deletes the entry (size one smaller); a get that finds an entry of age
\* at most the maximum returns its content and deletes nothing; so no
\* content older than the maximum age is ever returned.
C3_LazyExpiry ==
  (lastOp.op = "get" /\ lastOp.entryAge # Null) =>
    IF lastOp.entryAge[1] > maxCacheAge
    THEN /\ lastOp.ret = Null
         /\ ~MapHas(cache, lastOp.key)
         /\ Len(cache) = lastOp.sizeBefore - 1
    ELSE /\ MapHas(cache, lastOp.key)
         /\ lastOp.ret = Some(MapGet(cache, lastOp.key).renderedContent)
         /\ Len(cache) = lastOp.sizeBefore

\* a get found an expired entry among others and removed it
W_C3 ==
  /\ lastOp.op = "get" /\ lastOp.entryAge # Null
  /\ lastOp.entryAge[1] > maxCacheAge /\ lastOp.ret = Null
  /\ lastOp.sizeBefore >= 2 /\ Len(cache) = lastOp.sizeBefore - 1
(***************************************************************************)
(* Properties of the renderer and of the request pipeline                  *)
(***************************************************************************)
Rendering(p) == rs[p].options # Null
KeyOf(p) == generateKey(rs[p].source, rs[p].diagramType,
                        rs[p].options[1].outputFormat, NoFile)
Is2xx(status) == status \in 200..299
Is5xx(status) == status \in 500..599
Failed(response) == response.success = FALSE
StatusIs(response, status) ==
  "statusCode" \in DOMAIN response /\ response.statusCode = status

\* C4: with caching enabled, a render that starts while a valid (not expired,
\* not evicted) entry for its key exists returns that entry's content without
\* any GET or POST; the entry is the result the earlier successful render
\* returned and stored.
C4_CachedNoTransport ==
  \A p \in Procs :
    (Rendering(p) /\ rs[p].options[1].useCache) =>
      /\ rs[p].valid # Null =>
           /\ rs[p].pc = "done" /\ rs[p].outcome = "returned"
           /\ rs[p].value = rs[p].valid[1]
           /\ \A m \in Methods : rs[p].calls[m] = 0 /\ rs[p].started[m] = 0
      /\ (rs[p].pc = "done" /\ rs[p].outcome = "returned" /\ rs[p].valid = Null) =>
           /\ MapHas(cache, KeyOf(p))
           /\ MapGet(cache, KeyOf(p)).renderedContent = rs[p].value

\* a second render answered from the cache, some time after the first
W_C4 ==
  \E p \in Procs :
    /\ Rendering(p) /\ rs[p].options[1].useCache
    /\ rs[p].valid # Null /\ rs[p].pc = "done" /\ rs[p].value = rs[p].valid[1]
    /\ rs[p].calls["GET"] = 0 /\ rs[p].calls["POST"] = 0
    /\ MapGet(cache, KeyOf(p)).timestamp < now

\* C5: the POST strategy is started if and only if the GET strategy ended in
\* a failure other than status 400, and then once; a GET ending with status
\* 400 starts no POST and its error is thrown to the caller; a successful GET
\* starts no POST; no POST is issued before the GET strategy has finished.
C5_FallbackRule ==
  \A p \in Procs :
    Rendering(p) =>
      /\ rs[p].started["POST"] <= 1
      /\ rs[p].started["POST"] = 1 <=>
           /\ rs[p].result["GET"] # Null
           /\ Failed(rs[p].result["GET"][1])
           /\ ~StatusIs(rs[p].result["GET"][1], 400)
      /\ (rs[p].calls["POST"] > 0 \/ rs[p].method = "POST") =>
           rs[p].result["GET"] # Null
      /\ (rs[p].result["GET"] # Null /\ StatusIs(rs[p].result["GET"][1], 400)) =>
           /\ rs[p].calls["POST"] = 0
           /\ rs[p].pc = "done" /\ rs[p].outcome = "thrown"
           /\ rs[p].value = "Failed to render diagram: " \o rs[p].result["GET"][1].error

\* a GET that failed with a 404 was followed by one POST strategy, now over
W_C5 ==
  \E p \in Procs :
    /\ Rendering(p) /\ rs[p].pc = "done"
    /\ rs[p].result["GET"] # Null /\ StatusIs(rs[p].result["GET"][1], 404)
    /\ rs[p].started["POST"] = 1 /\ rs[p].calls["POST"] >= 1
    /\ rs[p].result["POST"] # Null

\* C6: with retryCount = r >= 1 the transport is called at most r times by
\* the GET strategy and at most r times by the POST strategy, in particular
\* when every answer is a 5xx status.
C6_AttemptsBounded ==
  \A p \in Procs :
    (Rendering(p) /\ rs[p].options[1].retryCount # Null) =>
      (rs[p].options[1].retryCount[1] >= 1 =>
         \A m \in Methods : rs[p].calls[m] <= rs[p].options[1].retryCount[1])

\* retryCount = 3 and a transport that always answered 5xx: 3 GETs, 3 POSTs
W_C6 ==
  \E p \in Procs :
    /\ Rendering(p) /\ rs[p].options[1].retryCount = Some(3)
    /\ rs[p].pc = "done"
    /\ \A m \in Methods :
         /\ rs[p].only5xx[m] /\ rs[p].calls[m] = 3
         /\ rs[p].lastOutcome[m].status = 503

\* C7: a strategy whose every attempt was answered with a 5xx status and
\* that is out of attempts returns a failure whose statusCode is the status
\* of the last response.
C7_ExhaustedCarriesStatus ==
  \A p \in Procs, m \in Methods :
    (Rendering(p) /\ rs[p].result[m] # Null /\ rs[p].calls[m] >= 1
       /\ rs[p].only5xx[m]) =>
      /\ Failed(rs[p].result[m][1])
      /\ StatusIs(rs[p].result[m][1], rs[p].lastOutcome[m].status)

\* C8: a response whose status is neither 2xx nor 5xx ends its strategy: no
\* backoff delay and no further attempt of the method follow it, and the
\* strategy returns a failure that carries the status.
C8_OtherStatusTerminal ==
  \A p \in Procs, m \in Methods :
    (Rendering(p) /\ rs[p].lastOutcome[m].kind = "response"
       /\ ~Is2xx(rs[p].lastOutcome[m].status)
       /\ ~Is5xx(rs[p].lastOutcome[m].status)) =>
      /\ rs[p].result[m] # Null
      /\ Failed(rs[p].result[m][1])
      /\ StatusIs(rs[p].result[m][1], rs[p].lastOutcome[m].status)
      /\ Len(rs[p].delays[m]) = rs[p].calls[m] - 1
      /\ ~(rs[p].method = m /\ rs[p].pc \in {"request", "delay"})

\* a 404 that answered the second attempt of a strategy with retryCount 3
W_C8 ==
  \E p \in Procs :
    /\ Rendering(p) /\ rs[p].options[1].retryCount = Some(3)
    /\ rs[p].lastOutcome["GET"].kind = "response"
    /\ rs[p].lastOutcome["GET"].status = 404
    /\ rs[p].calls["GET"] = 2 /\ Len(rs[p].delays["GET"]) = 1
    /\ rs[p].result["GET"] # Null

\* C9: every rejection of the transport call is retried after a backoff
\* while attempts remain, whatever the name or the message of the error.
C9_RejectionRetried ==
  \A p \in Procs, m \in Methods :
    (Rendering(p) /\ rs[p].lastOutcome[m].kind = "reject"
       /\ rs[p].calls[m] < NumOr(rs[p].options[1].retryCount, 1)) =>
      /\ rs[p].result[m] = Null
      /\ rs[p].method = m /\ rs[p].pc \in {"delay", "request"}

\* C10: whatever retryCount is (undefined, 0, negative, positive), a strategy
\* that entered its retry loop has made at least one transport attempt when
\* it reports its result.
C10_AtLeastOneAttempt ==
  \A p \in Procs, m \in Methods :
    (Rendering(p) /\ rs[p].result[m] # Null /\ (m = "GET" => rs[p].encoded)) =>
      rs[p].calls[m] >= 1

\* C11 (as stated): the backoff delay waited before attempt i (0-indexed) of
\* a strategy is retryDelay * 2^i, for every attempt that a delay precedes.
C11_DelayBeforeAttempt ==
  \A p \in Procs, m \in Methods :
    Rendering(p) =>
      \A i \in 1..(rs[p].calls[m] - 1) :
        rs[p].delays[m][i] = rs[p].retryDelay * Pow2(i)

\* C11 (amended): the backoff delay waited after attempt i (0-indexed) of a
\* strategy has failed retryably, that is before attempt i + 1, is exactly
\* retryDelay * 2^i; no delay precedes attempt 0.
C11_DelayAfterAttempt ==
  \A p \in Procs, m \in Methods :
    Rendering(p) =>
      /\ \A i \in 0..(Len(rs[p].delays[m]) - 1) :
           rs[p].delays[m][i + 1] = rs[p].retryDelay * Pow2(i)
      /\ Len(rs[p].delays[m]) <= rs[p].calls[m]
      /\ (rs[p].method = m /\ rs[p].pc = "request") =>
           Len(rs[p].delays[m]) = rs[p].calls[m] - 1
      /\ (rs[p].method = m /\ rs[p].pc = "delay") =>
           Len(rs[p].delays[m]) = rs[p].calls[m]

\* three attempts of a GET strategy with retryDelay 100, each answered 5xx
W_C11 ==
  \E p \in Procs :
    /\ Rendering(p) /\ rs[p].options[1].retryCount = Some(3)
    /\ rs[p].calls["GET"] = 3 /\ rs[p].only5xx["GET"]
    /\ rs[p].delays["GET"] = <<100, 200, 400>>

\* C12: when encoding the source fails the render fails with the encoding
\* error and no request, GET or POST, is issued for it; nothing is retried.
C12_EncodeFailureFatal ==
  \A p \in Procs :
    (Rendering(p) /\ rs[p].started["GET"] = 1 /\ ~rs[p].encoded) =>
      /\ rs[p].started["POST"] = 0
      /\ \A m \in Methods : rs[p].calls[m] = 0
      /\ rs[p].pc = "done" /\ rs[p].outcome = "thrown"
      /\ rs[p].value = "Failed to render diagram: Failed to encode diagram source"

\* C13: processResponse makes of every response with a status in 200..299 a
\* success carrying the payload (the text, or the bytes as a base64 data
\* URI) and the status code, and of every other response a failure carrying
\* the status code and, as error, the body text, or "HTTP error <status>"
\* when the body is empty.
PayloadOf(response) ==
  IF response.arrayBuffer = Null THEN response.text
  ELSE "data:" \o response.contentType \o ";base64," \o
       (IF response.arrayBuffer[1] = <<>> THEN "" ELSE "PHN2Zz5B")

C13_Normalize ==
  lastOp.op = "processResponse" =>
    LET response == lastOp.response
        ret == lastOp.ret
    IN  IF response.status \in 200..299
        THEN /\ ret.success = TRUE
             /\ Has(ret, "data") /\ ret.data = PayloadOf(response)
             /\ Has(ret, "statusCode") /\ ret.statusCode = response.status
        ELSE /\ ret.success = FALSE
             /\ Has(ret, "statusCode") /\ ret.statusCode = response.status
             /\ Has(ret, "error")
             /\ ret.error = IF response.text = ""
                            THEN "HTTP error " \o ToString(response.status)
                            ELSE response.text

\* a 300 with an empty body: the failure "HTTP error 300"
W_C13 ==
  /\ lastOp.op = "processResponse" /\ lastOp.response.status = 300
  /\ lastOp.response.text = "" /\ lastOp.ret.success = FALSE
  /\ lastOp.ret.error = "HTTP error 300" /\ lastOp.ret.statusCode = 300

\* C14: every result of sendGetRequest and of sendPostRequest is exactly one
\* variant: success with data and no error, or failure with a non-empty
\* error and no data, on every path (responses, rejections of the transport,
\* exhausted retries, encoding failures).
ExactlyOneVariant(response) ==
  IF response.success
  THEN Has(response, "data") /\ ~Has(response, "error")
  ELSE Has(response, "error") /\ response.error # "" /\ ~Has(response, "data")

C14_OneVariant ==
  \A p \in Procs, m \in Methods :
    (Rendering(p) /\ rs[p].result[m] # Null) => ExactlyOneVariant(rs[p].result[m][1])

\* a GET that ended on a rejection with an empty message, then a POST that
\* succeeded
W_C14 ==
  \E p \in Procs :
    /\ Rendering(p) /\ rs[p].result["GET"] # Null /\ rs[p].result["POST"] # Null
    /\ rs[p].lastOutcome["GET"].kind = "reject"
    /\ rs[p].lastOutcome["GET"].error.message = ""
    /\ rs[p].result["GET"][1].error = "Unknown error occurred"
    /\ rs[p].result["POST"][1].success

(***************************************************************************)
(* Properties of the detector                                              *)
(***************************************************************************)
\* the canonical names and the aliases of a table
TagsOf(diagramTypes) ==
  UNION { {diagramTypes[i].name} \cup
          {diagramTypes[i].aliases[j] : j \in 1..Len(diagramTypes[i].aliases)} :
          i \in 1..Len(diagramTypes) }
SupportedLanguages ==
  {getSupportedLanguages(detector.aliasMap)[i] : i \in 1..Len(detector.aliasMap)}

\* C19: a tag whose option block is malformed (tag{}, tag{a:b, a pair
\* without a colon) resolves to the diagram type of its base identifier when
\* that identifier is registered; only the options are dropped.
C19_MalformedKeepsBase ==
  (/\ lastOp.op = "detectDiagram" /\ lastOp.tag.kind = "malformed"
   /\ lastOp.tag.base \in TagsOf(detector.diagramTypes)) =>
    /\ lastOp.ret # Null
    /\ Some(lastOp.ret[1].diagramType) =
         detectDiagramType(detector.aliasMap, lastOp.tag.base)
    /\ lastOp.ret[1].options = <<>>

\* C20: after any sequence of updateDiagramTypes calls the tags the resolver
\* recognizes, and those getSupportedLanguages returns, are exactly the
\* canonical names and aliases of the table supplied last; a tag of an
\* earlier table only no longer resolves.
C20_RebuildReplaces ==
  /\ lastOp.op = "updateDiagramTypes" => detector.diagramTypes = lastOp.diagramTypes
  /\ SupportedLanguages = TagsOf(detector.diagramTypes)
  /\ Cardinality(SupportedLanguages) = Len(detector.aliasMap)
  /\ \A base \in TagBases :
       detectDiagramType(detector.aliasMap, base) # Null
         <=> base \in TagsOf(detector.diagramTypes)

\* the table with plantuml alone replaced one that had uml and d2
W_C20 ==
  /\ lastOp.op = "updateDiagramTypes"
  /\ lastOp.diagramTypes = <<[name |-> plantuml, aliases |-> <<>>]>>
  /\ SupportedLanguages = {plantuml}
  /\ detectDiagramType(detector.aliasMap, uml) = Null
  /\ detectDiagramType(detector.aliasMap, d2) = Null

\* the types of a table that list a tag among their aliases, and the names
ClaimersOf(diagramTypes, tag) ==
  {i \in 1..Len(diagramTypes) :
     \E j \in 1..Len(diagramTypes[i].aliases) : diagramTypes[i].aliases[j] = tag}
NamesOf(diagramTypes) == {diagramTypes[i].name : i \in 1..Len(diagramTypes)}
LastOf(indices) == CHOOSE i \in indices : \A j \in indices : j <= i

\* C21: an alias that two types of the table claim resolves to the type that
\* comes later in table order, and the resolution of every tag is the one a
\* map built from the table alone gives, whatever tables were supplied before.
C21_LastWriteWins ==
  \A tag \in TagBases :
    /\ (/\ Cardinality(ClaimersOf(detector.diagramTypes, tag)) >= 2
        /\ tag \notin NamesOf(detector.diagramTypes)) =>
         detectDiagramType(detector.aliasMap, tag) =
           Some(detector.diagramTypes[LastOf(ClaimersOf(detector.diagramTypes, tag))].name)
    /\ detectDiagramType(detector.aliasMap, tag) =
         detectDiagramType(DiagramDetector(detector.diagramTypes).aliasMap, tag)
    /\ detectDiagramType(updateDiagramTypes(detector, detector.diagramTypes).aliasMap, tag) =
         detectDiagramType(detector.aliasMap, tag)

\* plantuml and d2 both claim uml, d2 comes later: uml is a d2 diagram
W_C21 ==
  /\ lastOp.op = "updateDiagramTypes"
  /\ detector.diagramTypes =
       <<[name |-> plantuml, aliases |-> <<uml>>], [name |-> d2, aliases |-> <<uml>>]>>
  /\ ClaimersOf(detector.diagramTypes, uml) = {1, 2}
  /\ detectDiagramType(detector.aliasMap, uml) = Some(d2)

(***************************************************************************)
(* Properties of processCodeBlock and of the cache use of a render         *)
(***************************************************************************)
Block(p) == rs[p].language # Null
\* the step is one of the render that caller p is in after it
StepOf(p) == rs'[p] # rs[p]
\* the response renderDiagram handles: the one of POST if POST ran
FinalResult(p) ==
  IF rs[p].result["POST"] # Null THEN rs[p].result["POST"] ELSE rs[p].result["GET"]

\* C15: processCodeBlock with a tag the resolver does not recognize returns
\* null: it throws nothing, reads and writes no cache entry and issues no
\* request.
C15_UnrecognizedIsNull ==
  /\ [](\A p \in Procs :
         (Block(p) /\ rs[p].language[1].base \notin TagsOf(detector.diagramTypes)) =>
           /\ rs[p].detection = Null
           /\ rs[p].pc = "done" /\ rs[p].outcome = "null"
           /\ rs[p].lookup = Null /\ rs[p].written = Null
           /\ rs[p].requestOptions = Null
           /\ \A m \in Methods : rs[p].started[m] = 0 /\ rs[p].calls[m] = 0)
  /\ [][\A p \in Procs :
          (StepOf(p) /\ rs'[p].language # Null /\ rs'[p].detection = Null) =>
            cache' = cache]_vars

\* a js block returned null while the cache holds a diagram
W_C15 ==
  \E p \in Procs :
    /\ Block(p) /\ rs[p].language[1].base = js
    /\ rs[p].pc = "done" /\ rs[p].outcome = "null" /\ Len(cache) >= 1

\* the format a code block is rendered in: the one of its option block, or
\* else the one of the caller
FormatOf(p) ==
  IF rs[p].language[1].format # Null THEN rs[p].language[1].format[1]
  ELSE rs[p].callerOptions[1].outputFormat

\* C18: a recognized tag with an inline format option tag{format:F} is
\* rendered in F, not in the caller's output format, and that for the cache
\* lookup, for the request and for the cache write alike; without the option
\* the caller's format is used for all three.
C18_InlineFormat ==
  \A p \in Procs :
    (Block(p) /\ rs[p].detection # Null /\ rs[p].language[1].kind # "malformed") =>
      /\ rs[p].callerOptions[1].useCache =>
           rs[p].lookup # Null /\ rs[p].lookup[1].outputFormat = FormatOf(p)
      /\ rs[p].requestOptions # Null =>
           rs[p].requestOptions[1].outputFormat = FormatOf(p)
      /\ rs[p].written # Null =>
           /\ rs[p].written[1].outputFormat = FormatOf(p)
           /\ MapHas(cache, generateKey(rs[p].source, rs[p].diagramType,
                                        FormatOf(p), NoFile))
      /\ (rs[p].pc = "done" /\ rs[p].outcome = "returned"
            /\ rs[p].callerOptions[1].useCache /\ rs[p].cached = Null) =>
           rs[p].written # Null

\* uml{format:png} asked for in svg: looked up, requested and stored as png
W_C18 ==
  \E p \in Procs :
    /\ Block(p) /\ rs[p].language[1].format = Some("png")
    /\ rs[p].callerOptions[1].outputFormat = "svg"
    /\ rs[p].lookup # Null /\ rs[p].lookup[1].outputFormat = "png"
    /\ rs[p].requestOptions # Null /\ rs[p].requestOptions[1].outputFormat = "png"
    /\ rs[p].written # Null /\ rs[p].written[1].outputFormat = "png"
    /\ MapHas(cache, generateKey(Source(1), "plantuml", "png", NoFile))
    /\ ~MapHas(cache, generateKey(Source(1), "plantuml", "svg", NoFile))

\* C16: a render that fails (GET fails with 400, GET and POST both fail, or
\* the success response carries no data) throws and stores no entry for its
\* key, so a later identical render goes to the network again.
C16_FailureNotCached ==
  /\ [](\A p \in Procs :
         (Rendering(p) /\ rs[p].pc = "done" /\ rs[p].cached = Null) =>
           /\ (\/ Failed(FinalResult(p)[1])
               \/ FinalResult(p)[1].data = "") => rs[p].outcome = "thrown"
           /\ rs[p].outcome = "thrown" =>
                /\ rs[p].written = Null
                /\ rs[p].options[1].useCache => ~MapHas(cache, KeyOf(p)))
  /\ [][\A p \in Procs :
          (/\ Rendering(p) /\ rs[p].pc = "done" /\ rs[p].outcome = "thrown"
           /\ StepOf(p)
           /\ rs'[p].source = rs[p].source /\ rs'[p].diagramType = rs[p].diagramType
           /\ rs'[p].options = rs[p].options) =>
            /\ rs'[p].cached = Null
            /\ rs'[p].started["GET"] = 1 /\ rs'[p].outcome # "returned"
            /\ cache' = cache]_vars

\* a cached render failed on GET and on POST and left no entry for its key
W_C16 ==
  \E p \in Procs :
    /\ Rendering(p) /\ rs[p].options[1].useCache
    /\ rs[p].pc = "done" /\ rs[p].outcome = "thrown"
    /\ rs[p].result["GET"] # Null /\ rs[p].result["POST"] # Null
    /\ Failed(rs[p].result["POST"][1])
    /\ ~MapHas(cache, KeyOf(p))

\* C17: a render called with useCache = false neither reads nor writes the
\* cache: the transport is invoked also when a valid entry for the key
\* exists, and the cache is after the call what it was before, whether the
\* render succeeds or fails.
C17_UseCacheFalse ==
  /\ [](\A p \in Procs :
         (Rendering(p) /\ ~rs[p].options[1].useCache) =>
           /\ rs[p].lookup = Null /\ rs[p].cached = Null /\ rs[p].written = Null
           /\ rs[p].started["GET"] = 1
           /\ rs[p].calls["GET"] + rs[p].calls["POST"] >= 1)
  /\ [][\A p \in Procs :
          (StepOf(p) /\ rs'[p].options # Null /\ ~rs'[p].options[1].useCache) =>
            cache' = cache]_vars

\* a render with useCache = false went to the network and succeeded while a
\* valid entry for its key was, and still is, in the cache
W_C17 ==
  \E p \in Procs :
    /\ Rendering(p) /\ ~rs[p].options[1].useCache /\ rs[p].valid # Null
    /\ rs[p].pc = "done" /\ rs[p].outcome = "returned"
    /\ rs[p].calls["GET"] >= 1
    /\ MapHas(cache, KeyOf(p)) /\ MapGet(cache, KeyOf(p)).timestamp < now

(***************************************************************************)
(* Properties of the renders of the plugin's code blocks                   *)
(***************************************************************************)
\* the entries of the cache under a key
EntriesFor(key) == {i \in 1..Len(cache) : cache[i].key = key}
\* a render that found no entry and went to the network
Missed(p) == Rendering(p) /\ rs[p].options[1].useCache /\ rs[p].cached = Null
Succeeded(p) == rs[p].pc = "done" /\ rs[p].outcome = "returned"

\* C22: two renders of the same key that both missed the cache each issue
\* their own request, and each can be answered while the other is in flight;
\* once both have succeeded the cache holds one entry for the key.
C22_ConcurrentIndependent ==
  \A p \in Renders : \A q \in Renders \ {p} :
    (Missed(p) /\ Missed(q) /\ KeyOf(p) = KeyOf(q)) =>
      /\ rs[p].started["GET"] = 1 /\ rs[p].calls["GET"] >= 1
      /\ (rs[p].pc = "request" /\ rs[q].pc = "request") =>
           \A resp \in PluginResponses : ENABLED Respond(p, resp)
      /\ (Succeeded(p) /\ Succeeded(q)) =>
           /\ Cardinality(EntriesFor(KeyOf(p))) = 1
           /\ MapGet(cache, KeyOf(p)).renderedContent = rs[p].value

\* one render has succeeded and stored its result while the other, which
\* missed the cache before that, still awaits the answer to its own request
W_C22 ==
  \E p \in Renders : \E q \in Renders \ {p} :
    /\ Missed(p) /\ Missed(q) /\ KeyOf(p) = KeyOf(q)
    /\ Succeeded(p) /\ rs[p].written # Null
    /\ rs[q].pc = "request" /\ rs[q].calls["GET"] = 1
    /\ Cardinality(EntriesFor(KeyOf(p))) = 1

\* C25: a code block is answered from the cache whenever a valid entry for
\* its source, diagram type and output format exists, whatever document the
\* block is in and whatever document the entry was stored from; the key of
\* an entry has no document in it.
C25_SharedAcrossDocuments ==
  /\ \A p \in Renders :
       (Block(p) /\ Rendering(p) /\ rs[p].options[1].useCache
          /\ rs[p].valid # Null) =>
         /\ rs[p].cached = rs[p].valid
         /\ Succeeded(p) /\ rs[p].value = rs[p].valid[1]
         /\ \A m \in Methods : rs[p].calls[m] = 0
  /\ \A i \in 1..Len(cache) :
       cache[i].key = generateKey(cache[i].source, cache[i].diagramType,
                                  cache[i].outputFormat, NoFile)

\* a block of b.md answered with what a block of a.md had rendered and stored
W_C25 ==
  \E p \in Renders : \E q \in Renders \ {p} :
    /\ Block(p) /\ Block(q) /\ rs[p].context = "b.md" /\ rs[q].context = "a.md"
    /\ Succeeded(q) /\ rs[q].written # Null
    /\ Rendering(p) /\ rs[p].cached = Some(rs[q].value) /\ Succeeded(p)
    /\ rs[p].calls["GET"] = 0 /\ rs[p].calls["POST"] = 0

\* the plugin's renderDiagram has run to its end for the code block
Settled(p) == Block(p) /\ rs[p].pc = "done" /\ ~dom[p].awaiting /\ dom[p].container

\* C28: when processCodeBlock fails, and when the image fails to load, the
\* plugin's renderDiagram does not throw, the container of that code block
\* holds one error element and its loading indicator is gone; the step that
\* reports the failure changes no other code block.
C28_FailureStaysInBlock ==
  /\ [](\A p \in Renders :
         /\ ~dom[p].threw /\ dom[p].elErrors = 0
         /\ (Block(p) /\ rs[p].pc = "done" /\ ~dom[p].awaiting
               /\ rs[p].outcome = "thrown") =>
              dom[p].container /\ dom[p].errors = 1 /\ ~dom[p].loading
         /\ dom[p].img = "failed" =>
              dom[p].container /\ dom[p].errors = 1 /\ ~dom[p].loading
         /\ dom[p].errors >= 1 =>
              rs[p].outcome = "thrown" \/ dom[p].img = "failed")
  /\ [][\A p \in Renders :
          dom'[p].errors + dom'[p].elErrors > dom[p].errors + dom[p].elErrors =>
            \A q \in Renders \ {p} : dom'[q] = dom[q] /\ rs'[q] = rs[q]]_vars

\* the render of one block has failed and is reported in its container, and
\* the diagram of the other block has loaded
W_C28 ==
  \E p \in Renders : \E q \in Renders \ {p} :
    /\ Settled(p) /\ rs[p].outcome = "thrown"
    /\ dom[p].errors = 1 /\ ~dom[p].loading
    /\ Settled(q) /\ dom[q].img = "loaded" /\ dom[q].errors = 0 /\ ~dom[q].loading

(***************************************************************************)
(* Properties of the attempts in time and of the saved settings            *)
(***************************************************************************)
\* C23: no attempt stays unanswered for longer than the configured timeout.
C23_AttemptBounded ==
  \A p \in Procs :
    (rs[p].pc = "request" /\ rs[p].requestOptions[1].timeout # Null) =>
      now - rs[p].inFlightSince[1] <= rs[p].requestOptions[1].timeout[1]

\* C24: the cache enforces the cache size and the cache age that were saved
\* last: its limits are those of the settings, and a get that follows the
\* save returns nothing for an entry older than the saved age.
C24_SavedLimitsEnforced ==
  /\ maxCacheSize = settings.cacheSize
  /\ maxCacheAge = settings.cacheAge
  /\ (lastOp.op = "get" /\ lastOp.entryAge # Null) =>
       (lastOp.entryAge[1] > settings.cacheAge => lastOp.ret = Null)

(***************************************************************************)
(* Properties of encodeDiagramSource                                       *)
(***************************************************************************)
CharsOf(chars) == {chars[i] : i \in 1..Len(chars)}
\* the padding at the end of a base64 string
PadOf(base64) ==
  Cardinality({i \in 1..Len(base64) : base64[i] = "="})

\* C26: the token encodeDiagramSource returns has no "+" and no "/" in it and
\* does not end with "="; it is the base64 string with "-" for "+", "_" for
\* "/" and the padding taken off.
C26_UrlSafe ==
  lastOp.op = "encodeDiagramSource" =>
    /\ "+" \notin CharsOf(lastOp.ret) /\ "/" \notin CharsOf(lastOp.ret)
    /\ lastOp.ret # <<>> => lastOp.ret[Len(lastOp.ret)] # "="
    /\ Len(lastOp.ret) = Len(lastOp.base64) - PadOf(lastOp.base64)
    /\ \A i \in 1..Len(lastOp.ret) :
         lastOp.ret[i] = IF lastOp.base64[i] = "+" THEN "-"
                         ELSE IF lastOp.base64[i] = "/" THEN "_"
                         ELSE lastOp.base64[i]

\* a base64 string with two "+", a "/" and padding: "+/+8" and "+w=="
W_C26 ==
  /\ lastOp.op = "encodeDiagramSource"
  /\ lastOp.compressed = <<251, 251, 62, 251>>
  /\ Str(lastOp.base64) = "+/s++w=="
  /\ Str(lastOp.ret) = "-_s--w"

(***************************************************************************)
(* Properties of exportFile                                                *)
(***************************************************************************)
\* C29: the first thing exportFile does is the version check, nothing else
\* is read, written or executed unless the check succeeded, the only other
\* command executed is the conversion command, and a failure result made
\* once that command is built carries that command line.
C29_ProbeFirstCommandReported ==
  /\ exporter.effects # <<>> =>
       exporter.effects[1] = Effect("exec", PandocPath \o " --version")
  /\ exporter.available # Some(TRUE) => Len(exporter.effects) <= 1
  /\ \A i \in 2..Len(exporter.effects) :
       exporter.effects[i].kind = "exec" =>
         /\ exporter.command # Null
         /\ exporter.effects[i].command = exporter.command[1]
  /\ (exporter.pc = "done" /\ exporter.command # Null
        /\ ~exporter.result[1].success) =>
       exporter.result[1].command = exporter.command

\* the conversion command was executed after a successful probe and failed:
\* the result names it
W_C29 ==
  /\ exporter.pc = "done" /\ exporter.available = Some(TRUE)
  /\ exporter.command # Null /\ Len(exporter.effects) = 4
  /\ exporter.effects[4] = Effect("exec", exporter.command[1])
  /\ ~exporter.result[1].success
  /\ exporter.result[1].error = "Export failed: Command failed: " \o exporter.command[1]
  /\ exporter.result[1].command = exporter.command

(***************************************************************************)
(* Properties of pruneExpiredEntries                                       *)
(***************************************************************************)
EntriesOf(m) == {m[i] : i \in 1..Len(m)}
ExpiredAt(entry, t) == t - entry.timestamp > maxCacheAge

\* C30: pruneExpiredEntries removes the entries whose age exceeds the maximum
\* age and no other: the entries of age at most the maximum are in the cache
\* after it as they were before, in the order they were in.
C30_PruneExact ==
  lastOp.op = "pruneExpiredEntries" =>
    /\ \A entry \in EntriesOf(lastOp.before) :
         ExpiredAt(entry, lastOp.at) <=> ~MapHas(cache, entry.key)
    /\ \A entry \in EntriesOf(cache) : ~ExpiredAt(entry, lastOp.at)
    /\ cache = SelectSeq(lastOp.before,
                         LAMBDA entry : entry \in EntriesOf(cache))

\* of three entries the one older than the maximum age is gone, and the one
\* whose age is the maximum age and the new one are still there
W_C30 ==
  /\ lastOp.op = "pruneExpiredEntries" /\ maxCacheAge = 1
  /\ Len(lastOp.before) = 3 /\ Len(cache) = 2
  /\ \E entry \in EntriesOf(lastOp.before) :
       lastOp.at - entry.timestamp = 2 /\ ~MapHas(cache, entry.key)
  /\ \E entry \in EntriesOf(cache) : lastOp.at - entry.timestamp = 1
  /\ \E entry \in EntriesOf(cache) : lastOp.at - entry.timestamp = 0

(***************************************************************************)
(* Properties of the retry loop and of the error that is surfaced          *)
(***************************************************************************)
\* C31: every backoff delay is followed by a further attempt: the loop waits
\* only while an attempt is left, and after the last permitted attempt has
\* failed it reports exhaustion without another delay.
C31_DelayThenAttempt ==
  \A p \in Procs :
    rs[p].pc = "delay" => rs[p].attempt + 1 < rs[p].maxRetries

\* the last attempt of a strategy failed in a way that is retried
Retryable(outcome) ==
  \/ outcome.kind = "response" /\ outcome.status >= 500
  \/ outcome.kind = "reject" /\ IsNetworkError(outcome.error)
Exhausted(p, m) ==
  rs[p].result[m] # Null /\ rs[p].calls[m] >= 1 /\ Retryable(rs[p].lastOutcome[m])
\* the messages of the error a failed attempt leaves in lastError
ErrorsOf(outcome) ==
  IF outcome.kind = "reject" THEN {outcome.error.message}
  ELSE {"Server error: " \o ToString(outcome.status) \o " " \o b.text : b \in Bodies}

\* C32: a strategy that is out of attempts returns a failure whose error is
\* the one of its last attempt, and a render whose GET and POST both failed
\* throws the message of the POST failure.
C32_LastErrorSurfaced ==
  \A p \in Procs :
    Rendering(p) =>
      /\ \A m \in Methods :
           Exhausted(p, m) =>
             /\ Failed(rs[p].result[m][1])
             /\ rs[p].result[m][1].error \in ErrorsOf(rs[p].lastOutcome[m])
      /\ (/\ rs[p].pc = "done"
          /\ rs[p].result["GET"] # Null /\ Failed(rs[p].result["GET"][1])
          /\ rs[p].result["POST"] # Null /\ Failed(rs[p].result["POST"][1])) =>
           /\ rs[p].outcome = "thrown"
           /\ rs[p].value = "Failed to render diagram: "
                              \o rs[p].result["POST"][1].error

\* GET ran out of attempts on a 503 after a retry, POST was refused with 404:
\* the render throws the 404 of POST
W_C32 ==
  \E p \in Procs :
    /\ Rendering(p) /\ rs[p].pc = "done" /\ rs[p].outcome = "thrown"
    /\ Exhausted(p, "GET") /\ rs[p].calls["GET"] = 2
    /\ rs[p].lastOutcome["GET"].status = 503
    /\ rs[p].result["GET"][1].error = "Server error: 503 "
    /\ StatusIs(rs[p].result["POST"][1], 404)
    /\ rs[p].result["POST"][1].error # rs[p].result["GET"][1].error
    /\ rs[p].value = "Failed to render diagram: " \o rs[p].result["POST"][1].error

\* C33: a get that returns an entry leaves the Map as it was: the timestamp
\* of the entry, the entries and their order.
C33_HitChangesNothing ==
  [][(calls' # calls /\ lastOp'.op = "get" /\ lastOp'.ret # Null) =>
       cache' = cache]_vars

\* an entry of age 1 was returned, and its timestamp is still the old one
W_C33 ==
  /\ lastOp.op = "get" /\ lastOp.ret # Null /\ lastOp.entryAge = Some(1)
  /\ MapHas(cache, lastOp.key) /\ MapGet(cache, lastOp.key).timestamp < now
  /\ Len(cache) = lastOp.sizeBefore /\ Len(cache) >= 2

(***************************************************************************)
(* The diagram types saved in the settings tab                             *)
(***************************************************************************)
\* saveSettings after the settings tab changed settings.diagramTypes:
\* initializeRenderer gives the existing renderer the enabled types, then
\* registerDiagramProcessors registers processors for them
SaveDiagramTypes(diagramTypes) ==
  /\ settings' = [settings EXCEPT !.diagramTypes = diagramTypes]
  /\ detector' = updateDiagramTypes(detector, diagramTypesMap(diagramTypes))
  /\ processors' = registerDiagramProcessors(processors, diagramTypes)
  /\ lastOp' = [op |-> "saveSettings", cacheSize |-> settings.cacheSize,
                cacheAge |-> settings.cacheAge]
  /\ UNCHANGED <<cache, maxCacheSize, maxCacheAge, now, calls, used, rs, dom,
                 exporter>>

\* the toggle of a diagram type
ToggleEnabled(key, value) ==
  SaveDiagramTypes([settings.diagramTypes EXCEPT ![key].enabled = value])

\* the aliases field of a diagram type
SetAliases(key, aliases) ==
  SaveDiagramTypes([settings.diagramTypes EXCEPT ![key].aliases = aliases])

AliasLists == {<<>>, <<uml>>, <<erd>>}

RegistryNext ==
  \/ \E key \in 1..Len(settings.diagramTypes), value \in BOOLEAN :
       ToggleEnabled(key, value)
  \/ \E key \in 1..Len(settings.diagramTypes), aliases \in AliasLists :
       SetAliases(key, aliases)
  \/ \E tag \in LanguageTags : DetectDiagram(tag)

RegistrySpec == RenderInit /\ [][RegistryNext]_vars

\* C34: after load and after every save, the tags with a registered code-block
\* processor are exactly the tags the resolver recognizes
C34_WatchedIsRecognized == processors = SupportedLanguages


(***************************************************************************)
(* Properties of the tags with options and of the names of the table      *)
(***************************************************************************)
\* the option the block of a tag asks a format with, as parseLanguageOptions
\* returns it
FormatOption(tag) ==
  [key |-> <<"f", "o", "r", "m", "a", "t">>,
   value |-> [i \in 1..3 |-> CASE i = 1 -> "p" [] i = 2 -> "n" [] i = 3 -> "g"]]

\* C35: a tag the resolver recognizes, written with a well-formed option
\* block, resolves to the diagram type of the tag alone and carries the listed
\* options, also when the tag has a character that is not a word character
C35_OptionsKeepType ==
  (/\ lastOp.op = "detectDiagram" /\ lastOp.tag.kind = "wellformed"
   /\ detectDiagramType(detector.aliasMap, lastOp.tag.base) # Null) =>
    /\ lastOp.ret # Null
    /\ Some(lastOp.ret[1].diagramType) =
         detectDiagramType(detector.aliasMap, lastOp.tag.base)
    /\ lastOp.tag.format # Null =>
         \E i \in 1..Len(lastOp.ret[1].options) :
           lastOp.ret[1].options[i] = FormatOption(lastOp.tag)

\* C37: after every rebuild of the alias map each name of the table resolves
\* to itself, also when another type lists the name among its aliases
C37_NameResolvesToItself ==
  \A i \in 1..Len(detector.diagramTypes) :
    detectDiagramType(detector.aliasMap, detector.diagramTypes[i].name) =
      Some(detector.diagramTypes[i].name)


(***************************************************************************)
(* The cache called with a file                                            *)
(***************************************************************************)
\* the sources and the files of the calls: a source with the separator of the
\* keys in it, as the text of a diagram has, and the path of a note
KeySources == {"A", "A:x.md"}
KeyFiles == {NoFile, "x.md"}

\* the rendering of a diagram, which tells the arguments it was made for
ContentOf(source, diagramType, outputFormat, file) ==
  "<" \o outputFormat \o " " \o diagramType \o ">" \o source \o "</" \o file \o ">"

\* DiagramCache.set(source, renderedContent, diagramType, outputFormat, file)
SetIn(source, diagramType, outputFormat, file) ==
  LET key == generateKey(source, diagramType, outputFormat, file)
      renderedContent == ContentOf(source, diagramType, outputFormat, file)
  IN  /\ calls < MaxCalls
      /\ calls' = calls + 1
      /\ cache' = CacheSet(cache, maxCacheSize, now, source, renderedContent,
                           diagramType, outputFormat, file)
      /\ lastOp' = [op |-> "set", key |-> key, ret |-> Null,
                    sizeBefore |-> Len(cache), entryAge |-> Null,
                    added |-> <<>>, asked |-> renderedContent]
      /\ UNCHANGED <<maxCacheSize, maxCacheAge, now, used, rs, detector,
                     settings, processors, dom, exporter>>

\* DiagramCache.get(source, diagramType, outputFormat, file)
GetIn(source, diagramType, outputFormat, file) ==
  LET r == CacheGet(cache, maxCacheAge, now, source, diagramType, outputFormat, file)
      key == generateKey(source, diagramType, outputFormat, file)
  IN  /\ calls < MaxCalls
      /\ calls' = calls + 1
      /\ cache' = r.map
      /\ lastOp' = [op |-> "get", key |-> key, ret |-> r.ret,
                    sizeBefore |-> Len(cache),
                    entryAge |-> AgeOf(cache, key, now), added |-> <<>>,
                    asked |-> ContentOf(source, diagramType, outputFormat, file)]
      /\ UNCHANGED <<maxCacheSize, maxCacheAge, now, used, rs, detector,
                     settings, processors, dom, exporter>>

KeyNext ==
  \/ \E s \in KeySources, d \in DiagramTypes, f \in OutputFormats, file \in KeyFiles :
       SetIn(s, d, f, file)
  \/ \E s \in KeySources, d \in DiagramTypes, f \in OutputFormats, file \in KeyFiles :
       GetIn(s, d, f, file)
  \/ Tick

KeySpec == Init /\ [][KeyNext]_vars

\* C36: cache operations with different (source, diagram type, output
\* format, file) never address the same entry: a get returns nothing or the
\* content that was stored for its own arguments
C36_KeysInjective ==
  (lastOp.op = "get" /\ lastOp.ret # Null) => lastOp.ret = Some(lastOp.asked)


(***************************************************************************)
(* The renders when every transport call and every delay completes         *)
(***************************************************************************)
\* the answers of the transport: a diagram, a status that ends the render, one
\* that falls back to POST and one that is retried; a rejection that is
\* retried and one that is not
TerminationResponses ==
  {resp \in Responses : resp.status \in {200, 400, 404, 503} /\ resp.arrayBuffer = Null}
TerminationErrors ==
  {err \in TransportErrors : err.name = "AbortError" \/ err.message = ""}

\* requestUrl settles: it answers with a response or rejects with an error
Answered(p) ==
  \/ \E resp \in TerminationResponses : Respond(p, resp)
  \/ \E err \in TerminationErrors : Reject(p, err)

TerminationNext ==
  \/ \E p \in Procs, s \in RenderSources, d \in DiagramTypes,
        o \in RenderOptions : RenderDiagram(p, s, d, o, TRUE)
  \/ \E p \in Procs, s \in RenderSources, d \in DiagramTypes,
        o \in RenderOptions : RenderDiagram(p, s, d, o, FALSE)
  \/ \E p \in Procs : Answered(p)
  \/ \E p \in Procs : DelayElapsed(p)

\* the request pipeline with a transport that settles every call and a timer
\* that fires every delay
TerminationSpec ==
  /\ RenderInit /\ [][TerminationNext]_vars
  /\ \A p \in Procs : WF_vars(Answered(p)) /\ WF_vars(DelayElapsed(p))

\* max(1, retryCount), a retry count left out counting as none
Budget(retryCount) ==
  IF NumOr(retryCount, 1) < 1 THEN 1 ELSE NumOr(retryCount, 1)

\* C38: when every transport call and every backoff delay completes, a
\* renderDiagram call returns or throws, and it has called the transport at
\* most max(1, retryCount) times with GET and then at most max(1, retryCount)
\* times with POST
C38_Terminates ==
  /\ [](\A p \in Procs : Rendering(p) =>
          /\ \A m \in Methods : rs[p].calls[m] <= Budget(rs[p].options[1].retryCount)
          /\ rs[p].method = "GET" => rs[p].calls["POST"] = 0
          /\ rs[p].calls["POST"] >= 1 => rs[p].result["GET"] # Null)
  /\ \A p \in Procs : (rs[p].pc \in {"request", "delay"}) ~> (rs[p].pc = "done")

\* retryCount = 0: one GET answered with 503, one POST answered with 503, and
\* the render has thrown
W_C38 ==
  \E p \in Procs :
    /\ Rendering(p) /\ rs[p].options[1].retryCount = Some(0)
    /\ rs[p].pc = "done"
    /\ \A m \in Methods : rs[p].calls[m] = 1 /\ rs[p].lastOutcome[m].status = 503
    /\ rs[p].delays["GET"] # <<>> /\ rs[p].delays["POST"] # <<>>


(***************************************************************************)
(* The plugin unloaded while a render is in flight                         *)
(***************************************************************************)
\* DiagramCache.clear: the Map after the call
clear(m) == <<>>

\* DiagramRenderer.clearCache
clearCache(m) == clear(m)

\* onunload: the renderer exists, its cache is cleared; the promises of the
\* renders that await the transport or a delay stay pending
Onunload ==
  /\ lastOp = NoOp
  /\ cache' = clearCache(cache)
  /\ lastOp' = [op |-> "clearCache", key |-> "", ret |-> Null,
                sizeBefore |-> Len(cache), entryAge |-> Null, added |-> <<>>]
  /\ UNCHANGED <<maxCacheSize, maxCacheAge, now, calls, used, rs, detector,
                 settings, processors, dom, exporter>>

\* renders are started while the plugin is loaded; those in flight go on after
\* the unload
UnloadNext ==
  \/ \E p \in Procs, s \in RenderSources, d \in DiagramTypes, o \in FewRetryOptions :
       lastOp = NoOp /\ RenderDiagram(p, s, d, o, TRUE)
  \/ Onunload
  \/ \E p \in Procs : Answered(p)
  \/ \E p \in Procs : DelayElapsed(p)

UnloadSpec == RenderInit /\ [][UnloadNext]_vars

\* C39: after clearCache the cache stays empty until a render that started
\* after the clear succeeds; no render starts after the unload, so the cache
\* stays empty
C39_ClearedStaysEmpty == lastOp.op = "clearCache" => cache = <<>>

====
